---- MODULE Spec2Model ----
(***************************************************************************)
(* A model of the relational store engine of HelenaBase                    *)
(* (src/src/services/database.service.ts, class DatabaseService).          *)
(*                                                                         *)
(* JavaScript values are modelled as tagged records with the three fields  *)
(* t (the typeof tag), n (a number) and s (a string), so that any two      *)
(* values can be compared.  A row is a function from its own keys to       *)
(* values; reading a key a row does not have yields Undefined, as in JS.   *)
(***************************************************************************)
EXTENDS Integers, Sequences, FiniteSets, TLC

VARIABLES database, storage, now, uuidCount, last,
          queryHistory, pending, auth, store, console

vars == <<database, storage, now, uuidCount, last,
          queryHistory, pending, auth, store, console>>

\* what the calls of DatabaseService other than executeSQL and the query
\* history leave alone: the history, the executeSQL calls in their delay and
\* the state of the other services
services == <<queryHistory, pending, auth, store, console>>

(***************************************************************************)
(* Bounds of the model.                                                    *)
(***************************************************************************)
MaxRows == 2
MaxNow == 2
MaxUuid == 2
MaxTables == 2
MaxQueryRows == 3
MaxSqlUuid == 3
MaxSaved == 3
MaxPending == 2
MaxLogins == 6
MaxOthers == 96
MaxIds == 5
MaxUploads == 2
MaxExecutions == 3
MaxLines == 2

(***************************************************************************)
(* Constants of the program.                                               *)
(***************************************************************************)
\* the length above which saveQueryToHistory drops an entry
HistoryCap == 50
\* AuthService: the failed attempts that lock an account, the time in
\* milliseconds an attempt counts for, and the lengths above which the
\* list of attempts and the audit log drop their first entry
MAX_LOGIN_ATTEMPTS == 5
LOCKOUT_DURATION == 900000
AttemptsCap == 100
AuditCap == 500

(***************************************************************************)
(* JavaScript values.                                                      *)
(***************************************************************************)
Undefined == [t |-> "undefined", n |-> 0, s |-> ""]
Null == [t |-> "null", n |-> 0, s |-> ""]
NaN == [t |-> "number", n |-> 0, s |-> "NaN"]
Num(i) == [t |-> "number", n |-> i, s |-> ""]
Str(x) == [t |-> "string", n |-> 0, s |-> x]
Bool(b) == [t |-> "boolean", n |-> IF b THEN 1 ELSE 0, s |-> ""]
\* crypto.randomUUID(): the k-th identifier drawn, a non-empty string
RandomUUID(k) == [t |-> "string", n |-> k, s |-> "uuid"]
\* new Date().toISOString() read when the clock shows k, a non-empty string
ToISOString(k) == [t |-> "string", n |-> k, s |-> "iso"]

\* the truthiness test of `if (v)` and `v || w`
Truthy(v) ==
    CASE v.t = "undefined" -> FALSE
      [] v.t = "null" -> FALSE
      [] v.t = "number" -> v # NaN /\ v.n # 0
      [] v.t = "string" -> v.s # ""
      [] v.t = "boolean" -> v.n = 1

\* a === b
StrictEq(a, b) == a = b /\ a # NaN

\* a || b
OrElse(a, b) == IF Truthy(a) THEN a ELSE b

\* ToNumber(v) where it is a number; the other values convert to NaN
IsNumeric(v) ==
    \/ v.t = "number" /\ v # NaN
    \/ v.t = "null"
    \/ v.t = "boolean"
    \/ v = Str("")

ToNumber(v) == IF v.t = "number" \/ v.t = "boolean" THEN v.n ELSE 0

\* row[key]
Get(row, key) == IF key \in DOMAIN row THEN row[key] ELSE Undefined

\* the object literal {}
EmptyObject == [k \in {} |-> Undefined]

\* a variant of Object.assign that overwrites keys and adds none
ObjectAssignExisting(row, data) ==
    [k \in DOMAIN row |-> IF k \in DOMAIN data THEN data[k] ELSE row[k]]

\* Object.assign(row, data)
ObjectAssign(row, data) ==
    [k \in DOMAIN row \cup DOMAIN data |->
        IF k \in DOMAIN data THEN data[k] ELSE row[k]]

\* the largest element of a non-empty set of integers
SetMax(S) == CHOOSE m \in S : \A x \in S : x <= m

\* Math.max(...values) of a non-empty sequence of values
MathMax(values) ==
    IF \E i \in 1..Len(values) : ~IsNumeric(values[i])
    THEN NaN
    ELSE Num(SetMax({ToNumber(values[i]) : i \in 1..Len(values)}))

\* a variant of v + 1 that leaves the 1 out
PlusNothing(v) == v

\* v + 1 for a number v
PlusOne(v) == IF v = NaN THEN NaN ELSE Num(v.n + 1)

(***************************************************************************)
(* Columns and tables.                                                     *)
(***************************************************************************)
Column(name, type, nullable) ==
    [name |-> name, type |-> type, nullable |-> nullable,
     default |-> Undefined, primary |-> Undefined, unique |-> Undefined,
     autoIncrement |-> Undefined, length |-> Undefined]

GEN_UUID == Str("gen_random_uuid()")
NOW_FN == Str("now()")

\* the columns of the default users table
UsersColumns ==
    << [Column("id", "UUID", FALSE) EXCEPT
            !.primary = Bool(TRUE), !.default = GEN_UUID],
       [Column("email", "VARCHAR", FALSE) EXCEPT
            !.unique = Bool(TRUE), !.length = Num(255)],
       [Column("name", "VARCHAR", FALSE) EXCEPT !.length = Num(100)],
       Column("avatar_url", "TEXT", TRUE),
       [Column("created_at", "TIMESTAMP", FALSE) EXCEPT !.default = NOW_FN] >>

UsersTable(id, time) ==
    [id |-> id, name |-> "users", schema |-> "public",
     columns |-> UsersColumns, rows |-> << >>,
     indexes |-> << [name |-> "users_email_idx", columns |-> <<"email">>,
                     unique |-> TRUE] >>,
     policies |-> << >>,
     createdAt |-> ToISOString(time), updatedAt |-> ToISOString(time)]

ColumnNames(table) == {table.columns[i].name : i \in 1..Len(table.columns)}

\* a variant of findIndex that finds no column
FindNone(columns, name) == 0

\* table.columns.findIndex(c => c.name === name), 0 for -1
FindIndex(columns, name) ==
    IF \E i \in 1..Len(columns) : columns[i].name = name
    THEN CHOOSE i \in 1..Len(columns) :
            /\ columns[i].name = name
            /\ \A j \in 1..(i - 1) : columns[j].name # name
    ELSE 0

(***************************************************************************)
(* The Database and its snapshot.                                          *)
(***************************************************************************)
HasTable(db, schema, name) ==
    /\ schema \in DOMAIN db
    /\ name \in DOMAIN db[schema]

\* this.database[schema][name] = table
PutTable(db, schema, name, table) ==
    [s \in DOMAIN db \cup {schema} |->
        IF s = schema
        THEN [n \in (IF s \in DOMAIN db THEN DOMAIN db[s] ELSE {}) \cup {name} |->
                IF n = name THEN table ELSE db[s][n]]
        ELSE db[s]]

\* a variant of the delete that keeps the table
KeepTable(db, schema, name) == db

\* delete this.database[schema][name]
RemoveTable(db, schema, name) ==
    [s \in DOMAIN db |->
        IF s = schema
        THEN [n \in DOMAIN db[s] \ {name} |-> db[s][n]]
        ELSE db[s]]

\* JSON.stringify of a row: a key whose value is undefined is left out,
\* and NaN is written as null
StringifyRow(row) ==
    [k \in {k \in DOMAIN row : row[k] # Undefined} |->
        IF row[k] = NaN THEN Null ELSE row[k]]

StringifyTable(table) ==
    [table EXCEPT !.rows = [i \in 1..Len(table.rows) |-> StringifyRow(table.rows[i])]]

\* JSON.stringify(this.database): the text is modelled by its members
JSONstringify(db) ==
    [json |-> [s \in DOMAIN db |->
                [n \in DOMAIN db[s] |-> StringifyTable(db[s][n])]]]

\* JSON.parse(data)
JSONparse(text) == text.json

\* saveDatabase(): the snapshot written for the Database db
saveDatabase(db) == JSONstringify(db)

\* the table names the calls of the model use
TableNames == {"users", "items", "foo"}

\* the number of rows in all tables
TotalRows(db) ==
    LET slots == {<<s, n>> \in (DOMAIN db) \X TableNames : n \in DOMAIN db[s]}
        RECURSIVE Sum(_)
        Sum(S) == IF S = {} THEN 0
                  ELSE LET x == CHOOSE x \in S : TRUE
                       IN Len(db[x[1]][x[2]].rows) + Sum(S \ {x})
    IN Sum(slots)

(***************************************************************************)
(* The operations of DatabaseService, as functions of the Database.  Each  *)
(* yields the Database after the call (db), whether saveDatabase() was     *)
(* called (saved) and the value returned (result).  The measured           *)
(* executionTime of a QueryResult is left out.                             *)
(***************************************************************************)
\* a variant of the failure that does not name the table
NotFoundUnnamed(schema, tableName) ==
    [success |-> FALSE, error |-> "Table not found"]

NotFound(schema, tableName) ==
    [success |-> FALSE,
     error |-> "Table " \o schema \o "." \o tableName \o " not found"]

\* getTable(schema, tableName), for a table that exists
getTable(db, schema, tableName) == db[schema][tableName]

\* a variant of createTable that replaces a table of the same name
createTableReplacing(db, schema, table) ==
    [db |-> PutTable(db, schema, table.name, table),
     saved |-> TRUE, result |-> TRUE]

createTable(db, schema, table) ==
    LET db1 == IF schema \in DOMAIN db
               THEN db
               ELSE [s \in DOMAIN db \cup {schema} |->
                        IF s = schema THEN EmptyObject ELSE db[s]]
    IN IF table.name \in DOMAIN db1[schema]
       THEN [db |-> db1, saved |-> FALSE, result |-> FALSE]
       ELSE [db |-> PutTable(db1, schema, table.name, table),
             saved |-> TRUE, result |-> TRUE]

dropTable(db, schema, tableName) ==
    IF ~HasTable(db, schema, tableName)
    THEN [db |-> db, saved |-> FALSE, result |-> FALSE]
    ELSE [db |-> RemoveTable(db, schema, tableName),
          saved |-> TRUE, result |-> TRUE]

addColumn(db, schema, tableName, column, time) ==
    IF ~HasTable(db, schema, tableName)
    THEN [db |-> db, saved |-> FALSE, result |-> FALSE]
    ELSE LET table == getTable(db, schema, tableName)
         IN IF FindIndex(table.columns, column.name) # 0
            THEN [db |-> db, saved |-> FALSE, result |-> FALSE]
            ELSE LET rows == [i \in 1..Len(table.rows) |->
                                ObjectAssign(table.rows[i],
                                    [k \in {column.name} |->
                                        OrElse(column.default, Null)])]
                     table1 == [table EXCEPT
                                  !.columns = Append(table.columns, column),
                                  !.rows = rows,
                                  !.updatedAt = ToISOString(time)]
                 IN [db |-> PutTable(db, schema, tableName, table1),
                     saved |-> TRUE, result |-> TRUE]

\* columns.splice(index, 1)
Splice1(seq, index) ==
    [i \in 1..(Len(seq) - 1) |-> IF i < index THEN seq[i] ELSE seq[i + 1]]

\* a variant of the delete that keeps the key
KeepKey(row, key) == row

\* delete row[key]
DeleteKey(row, key) == [k \in DOMAIN row \ {key} |-> row[k]]

removeColumn(db, schema, tableName, columnName, time) ==
    IF ~HasTable(db, schema, tableName)
    THEN [db |-> db, saved |-> FALSE, result |-> FALSE]
    ELSE LET table == getTable(db, schema, tableName)
             columnIndex == FindIndex(table.columns, columnName)
         IN IF columnIndex = 0
            THEN [db |-> db, saved |-> FALSE, result |-> FALSE]
            ELSE LET table1 == [table EXCEPT
                                  !.columns = Splice1(table.columns, columnIndex),
                                  !.rows = [i \in 1..Len(table.rows) |->
                                              DeleteKey(table.rows[i], columnName)],
                                  !.updatedAt = ToISOString(time)]
                 IN [db |-> PutTable(db, schema, tableName, table1),
                     saved |-> TRUE, result |-> TRUE]

\* whether insert draws a fresh UUID for the column
DrawsUUID(col, data) ==
    /\ Get(data, col.name) = Undefined
    /\ Truthy(col.default)
    /\ col.default = GEN_UUID

\* the number of UUIDs insert draws for the columns before the i-th
DrawnBefore(columns, i, data) ==
    Cardinality({j \in 1..(i - 1) : DrawsUUID(columns[j], data)})

\* the value insert gives the column col of a new row
insertValue(table, col, data, time, uuid) ==
    IF Get(data, col.name) # Undefined
    THEN data[col.name]
    ELSE IF Truthy(col.default)
    THEN IF col.default = GEN_UUID
         THEN RandomUUID(uuid)
         ELSE IF col.default = NOW_FN
         THEN ToISOString(time)
         ELSE col.default
    ELSE IF Truthy(col.autoIncrement)
    THEN LET maxId == IF Len(table.rows) > 0
                      THEN MathMax([i \in 1..Len(table.rows) |->
                                OrElse(Get(table.rows[i], col.name), Num(0))])
                      ELSE Num(0)
         IN PlusOne(maxId)
    ELSE Null

\* a variant of the row insert builds that copies the fields of data that
\* match no declared column as well
insertRowWithData(table, data, time, uuid) ==
    [k \in ColumnNames(table) \cup DOMAIN data |->
        IF k \in ColumnNames(table)
        THEN LET i == CHOOSE i \in 1..Len(table.columns) :
                        /\ table.columns[i].name = k
                        /\ \A j \in (i + 1)..Len(table.columns) :
                              table.columns[j].name # k
             IN insertValue(table, table.columns[i], data, time,
                            uuid + DrawnBefore(table.columns, i, data))
        ELSE data[k]]

\* the row insert builds: one key per declared column name; of two columns
\* of one name the later one assigns last
insertRow(table, data, time, uuid) ==
    [k \in ColumnNames(table) |->
        LET i == CHOOSE i \in 1..Len(table.columns) :
                    /\ table.columns[i].name = k
                    /\ \A j \in (i + 1)..Len(table.columns) :
                          table.columns[j].name # k
        IN insertValue(table, table.columns[i], data, time,
                       uuid + DrawnBefore(table.columns, i, data))]

insert(db, schema, tableName, data, time, uuid) ==
    IF ~HasTable(db, schema, tableName)
    THEN [db |-> db, saved |-> FALSE, result |-> NotFound(schema, tableName),
          drawn |-> 0]
    ELSE LET table == getTable(db, schema, tableName)
             row == insertRow(table, data, time, uuid)
             table1 == [table EXCEPT !.rows = Append(table.rows, row),
                                     !.updatedAt = ToISOString(time)]
         IN [db |-> PutTable(db, schema, tableName, table1),
             saved |-> TRUE,
             result |-> [success |-> TRUE, data |-> <<row>>, rowsAffected |-> 1],
             drawn |-> DrawnBefore(table.columns, Len(table.columns) + 1, data)]

\* a variant of the filter with some() for every()
MatchesSome(row, where) ==
    \E key \in DOMAIN where : StrictEq(Get(row, key), where[key])

\* Object.entries(where).every(([key, value]) => row[key] === value)
Matches(row, where) ==
    \A key \in DOMAIN where : StrictEq(Get(row, key), where[key])

\* a variant of the filter that keeps the matching rows in delete too
FilterRowsMatching(rows, where, keepMatching) ==
    LET RECURSIVE F(_)
        F(i) == IF i = 0 THEN << >>
                ELSE IF Matches(rows[i], where)
                THEN Append(F(i - 1), rows[i])
                ELSE F(i - 1)
    IN F(Len(rows))

\* rows.filter(row => every(...)) for keepMatching, and
\* rows.filter(row => !every(...)) otherwise
FilterRows(rows, where, keepMatching) ==
    LET RECURSIVE F(_)
        F(i) == IF i = 0 THEN << >>
                ELSE IF Matches(rows[i], where) = keepMatching
                THEN Append(F(i - 1), rows[i])
                ELSE F(i - 1)
    IN F(Len(rows))

\* a variant of the end of update and delete that sets updatedAt always
touchAlways(table, rows, rowsAffected, time) ==
    [table EXCEPT !.rows = rows, !.updatedAt = ToISOString(time)]

\* the end of update and delete: the rows are in place, and a call that
\* affected a row sets updatedAt
touch(table, rows, rowsAffected, time) ==
    IF rowsAffected > 0
    THEN [table EXCEPT !.rows = rows, !.updatedAt = ToISOString(time)]
    ELSE [table EXCEPT !.rows = rows]

\* a variant of update and delete that never calls saveDatabase()
savesNever(rowsAffected) == FALSE

\* whether update and delete call saveDatabase()
saves(rowsAffected) == rowsAffected > 0

update(db, schema, tableName, where, data, time) ==
    IF ~HasTable(db, schema, tableName)
    THEN [db |-> db, saved |-> FALSE, result |-> NotFound(schema, tableName)]
    ELSE LET table == getTable(db, schema, tableName)
             rows == [i \in 1..Len(table.rows) |->
                        IF Matches(table.rows[i], where)
                        THEN ObjectAssign(table.rows[i], data)
                        ELSE table.rows[i]]
             rowsAffected ==
                Cardinality({i \in 1..Len(table.rows) : Matches(table.rows[i], where)})
             table1 == touch(table, rows, rowsAffected, time)
         IN [db |-> PutTable(db, schema, tableName, table1),
             saved |-> saves(rowsAffected),
             result |-> [success |-> TRUE, rowsAffected |-> rowsAffected]]

delete(db, schema, tableName, where, time) ==
    IF ~HasTable(db, schema, tableName)
    THEN [db |-> db, saved |-> FALSE, result |-> NotFound(schema, tableName)]
    ELSE LET table == getTable(db, schema, tableName)
             initialLength == Len(table.rows)
             rows == FilterRows(table.rows, where, FALSE)
             rowsAffected == initialLength - Len(rows)
             table1 == touch(table, rows, rowsAffected, time)
         IN [db |-> PutTable(db, schema, tableName, table1),
             saved |-> saves(rowsAffected),
             result |-> [success |-> TRUE, rowsAffected |-> rowsAffected]]

\* a < b.  Numbers, null and booleans compare as numbers, ISO timestamps as
\* their instants; a comparison with undefined or NaN is false.
Less(a, b) ==
    \/ /\ IsNumeric(a) /\ IsNumeric(b)
       /\ ToNumber(a) < ToNumber(b)
    \/ /\ a.t = "string" /\ a.s = "iso"
       /\ b.t = "string" /\ b.s = "iso"
       /\ a.n < b.n

\* a variant of the comparator that takes every direction for ASC
compareAscending(a, b, orderBy) ==
    LET RECURSIVE Cmp(_)
        Cmp(k) ==
            IF k > Len(orderBy) THEN 0
            ELSE LET aVal == Get(a, orderBy[k].column)
                     bVal == Get(b, orderBy[k].column)
                 IN IF Less(aVal, bVal) THEN -1
                    ELSE IF Less(bVal, aVal) THEN 1
                    ELSE Cmp(k + 1)
    IN Cmp(1)

\* the comparator select gives to sort: -1, 0 or 1
compare(a, b, orderBy) ==
    LET RECURSIVE Cmp(_)
        Cmp(k) ==
            IF k > Len(orderBy) THEN 0
            ELSE LET aVal == Get(a, orderBy[k].column)
                     bVal == Get(b, orderBy[k].column)
                 IN IF Less(aVal, bVal)
                    THEN (IF orderBy[k].direction = "ASC" THEN -1 ELSE 1)
                    ELSE IF Less(bVal, aVal)
                    THEN (IF orderBy[k].direction = "ASC" THEN 1 ELSE -1)
                    ELSE Cmp(k + 1)
    IN Cmp(1)

\* Array.prototype.sort with the comparator: a stable sort (ES2019), here an
\* insertion sort that puts each element behind the last one not above it
SortBy(seq, orderBy) ==
    LET InsertInto(sorted, x) ==
            LET after == {i \in 1..Len(sorted) : compare(sorted[i], x, orderBy) <= 0}
                pos == IF after = {} THEN 0 ELSE SetMax(after)
            IN SubSeq(sorted, 1, pos) \o <<x>> \o SubSeq(sorted, pos + 1, Len(sorted))
        RECURSIVE S(_)
        S(i) == IF i = 0 THEN << >> ELSE InsertInto(S(i - 1), seq[i])
    IN S(Len(seq))

\* the index Array.prototype.slice clamps an argument to
SliceIndex(k, len) ==
    IF k < 0 THEN (IF len + k < 0 THEN 0 ELSE len + k)
    ELSE IF k > len THEN len ELSE k

\* seq.slice(start, end), 0-based and end-exclusive as in JS
Slice(seq, start, end) ==
    SubSeq(seq, SliceIndex(start, Len(seq)) + 1, SliceIndex(end, Len(seq)))

\* the options of select: an absent option is Undefined
Options(where, orderBy, limit, offset) ==
    [where |-> where, orderBy |-> orderBy, limit |-> limit, offset |-> offset]

select(db, schema, tableName, options) ==
    IF ~HasTable(db, schema, tableName)
    THEN [db |-> db, saved |-> FALSE, result |-> NotFound(schema, tableName)]
    ELSE LET table == getTable(db, schema, tableName)
             filtered == IF options.where # Undefined
                         THEN FilterRows(table.rows, options.where, TRUE)
                         ELSE table.rows
             sorted == IF options.orderBy # Undefined
                       THEN SortBy(filtered, options.orderBy)
                       ELSE filtered
             dropped == IF Truthy(options.offset)
                        THEN Slice(sorted, options.offset.n, Len(sorted))
                        ELSE sorted
             results == IF Truthy(options.limit)
                        THEN Slice(dropped, 0, options.limit.n)
                        ELSE dropped
         IN [db |-> db, saved |-> FALSE,
             result |-> [success |-> TRUE, data |-> results,
                         rowsAffected |-> Len(results)]]

(***************************************************************************)
(* Strings, and the string methods and the two regular expressions that    *)
(* executeSQL uses.  A position is 1-based.  The white space of the texts  *)
(* is the space character.                                                 *)
(***************************************************************************)
CharAt(s, i) == SubSeq(s, i, i)

LowerCase == "abcdefghijklmnopqrstuvwxyz"
UpperCase == "ABCDEFGHIJKLMNOPQRSTUVWXYZ"
Digits == "0123456789"

\* the characters of a string, as a set
Chars(s) == {CharAt(s, i) : i \in 1..Len(s)}

LowerChars == Chars(LowerCase)
WordChars == Chars(LowerCase \o UpperCase \o Digits \o "_")

\* the first position of the character c in s, 0 when there is none
RECURSIVE IndexFrom(_, _, _)
IndexFrom(s, c, i) ==
    IF i > Len(s) THEN 0
    ELSE IF CharAt(s, i) = c THEN i
    ELSE IndexFrom(s, c, i + 1)

IndexOf(s, c) == IndexFrom(s, c, 1)

ToUpperChar(c) ==
    IF c \in LowerChars THEN CharAt(UpperCase, IndexOf(LowerCase, c)) ELSE c

\* s.toUpperCase()
RECURSIVE toUpperCase(_)
toUpperCase(s) ==
    IF s = ""
    THEN ""
    ELSE ToUpperChar(CharAt(s, 1)) \o toUpperCase(SubSeq(s, 2, Len(s)))

\* a character of the class \s
IsSpace(c) == c = " "

\* a character of the class \w
IsWord(c) == c \in WordChars

\* the length of the longest run of \w characters, or of \s characters when
\* spaces is TRUE, that starts at position p of s
RECURSIVE Run(_, _, _)
Run(s, p, spaces) ==
    IF p > Len(s) THEN 0
    ELSE IF (IF spaces THEN IsSpace(CharAt(s, p)) ELSE IsWord(CharAt(s, p)))
    THEN 1 + Run(s, p + 1, spaces)
    ELSE 0

\* s without the white space at its end
RECURSIVE trimEnd(_)
trimEnd(s) ==
    IF s # "" /\ IsSpace(CharAt(s, Len(s)))
    THEN trimEnd(SubSeq(s, 1, Len(s) - 1))
    ELSE s

\* s.trim()
trim(s) == trimEnd(SubSeq(s, 1 + Run(s, 1, TRUE), Len(s)))

\* a variant of startsWith that finds the prefix anywhere in s
startsWithAnywhere(s, prefix) ==
    \E i \in 1..(Len(s) - Len(prefix) + 1) :
        SubSeq(s, i, i + Len(prefix) - 1) = prefix

\* s.startsWith(prefix)
startsWith(s, prefix) ==
    /\ Len(s) >= Len(prefix)
    /\ SubSeq(s, 1, Len(prefix)) = prefix

\* s.includes(part)
includes(s, part) ==
    \E i \in 1..(Len(s) - Len(part) + 1) :
        SubSeq(s, i, i + Len(part) - 1) = part

\* a variant of split that leaves s in one piece
splitNowhere(s, separator) == <<s>>

\* s.split(separator) for a separator of one character
RECURSIVE split(_, _)
split(s, separator) ==
    LET i == IndexOf(s, separator)
    IN IF i = 0
       THEN <<s>>
       ELSE <<SubSeq(s, 1, i - 1)>> \o split(SubSeq(s, i + 1, Len(s)), separator)

\* s.split(/\s+/)
RECURSIVE splitSpaces(_)
splitSpaces(s) ==
    LET i == IndexOf(s, " ")
    IN IF i = 0
       THEN <<s>>
       ELSE <<SubSeq(s, 1, i - 1)>>
               \o splitSpaces(SubSeq(s, i + Run(s, i, TRUE), Len(s)))

\* the value of match when the expression does not match: null
NoMatch == [found |-> FALSE, g1 |-> "", g2 |-> "", g3 |-> ""]

\* (\w+)\.?(\w+)? at position a of sql: the two groups and the position
\* after them; a group that took no part is the empty string
MatchName(sql, a) ==
    LET k1 == Run(sql, a, FALSE)
        b == a + k1
        c == IF b <= Len(sql) /\ CharAt(sql, b) = "." THEN b + 1 ELSE b
        k2 == Run(sql, c, FALSE)
    IN [found |-> k1 > 0, g1 |-> SubSeq(sql, a, b - 1),
        g2 |-> SubSeq(sql, c, c + k2 - 1), end |-> c + k2]

\* /CREATE TABLE (\w+)\.?(\w+)?\s*\((.*)\)/i tried at position p of sql;
\* upper is sql in upper case, which the letters of the expression match
\* as they match sql without regard to case
MatchCreateAt(sql, upper, p) ==
    LET n == Len(sql)
        name == MatchName(sql, p + 13)
        open == name.end + Run(sql, name.end, TRUE)
        closes == {i \in (open + 1)..n : CharAt(sql, i) = ")"}
    IN IF /\ p + 12 <= n
          /\ SubSeq(upper, p, p + 12) = "CREATE TABLE "
          /\ name.found
          /\ open <= n
          /\ CharAt(sql, open) = "("
          /\ closes # {}
       THEN [found |-> TRUE, g1 |-> name.g1, g2 |-> name.g2,
             g3 |-> SubSeq(sql, open + 1, SetMax(closes) - 1)]
       ELSE NoMatch

\* sql.match(/CREATE TABLE (\w+)\.?(\w+)?\s*\((.*)\)/i): the leftmost match
MatchCreate(sql) ==
    LET upper == toUpperCase(sql)
        starts == {p \in 1..(Len(sql) - 12) :
                        MatchCreateAt(sql, upper, p).found}
    IN IF starts = {}
       THEN NoMatch
       ELSE MatchCreateAt(sql, upper,
                          CHOOSE p \in starts : \A q \in starts : p <= q)

\* sql.match(/SELECT .* FROM (\w+)\.?(\w+)?/i): the leftmost match, in which
\* .* reaches to the last FROM that a name follows
MatchSelect(sql) ==
    LET n == Len(sql)
        upper == toUpperCase(sql)
        froms == {f \in 1..(n - 6) :
                        /\ SubSeq(upper, f, f + 5) = " FROM "
                        /\ IsWord(CharAt(sql, f + 6))}
        starts == {p \in 1..(n - 6) :
                        /\ SubSeq(upper, p, p + 6) = "SELECT "
                        /\ \E f \in froms : f >= p + 7}
    IN IF starts = {}
       THEN NoMatch
       ELSE LET name == MatchName(sql, SetMax(froms) + 6)
            IN [found |-> TRUE, g1 |-> name.g1, g2 |-> name.g2, g3 |-> ""]

\* match[2] ? match[1] : 'public'
matchSchema(match) == IF match.g2 # "" THEN match.g1 ELSE "public"

\* a variant of the table name that takes the first group
matchFirst(match) == match.g1

\* match[2] || match[1]
matchTable(match) == IF match.g2 # "" THEN match.g2 ELSE match.g1

\* the column that executeSQL makes of one definition of the column list
parseColumn(colDef) ==
    LET parts == splitSpaces(trim(colDef))
    IN [Column(parts[1],
               IF Len(parts) >= 2 /\ parts[2] # "" THEN parts[2] ELSE "TEXT",
               ~includes(colDef, "NOT NULL"))
        EXCEPT !.primary = Bool(includes(colDef, "PRIMARY KEY")),
               !.unique = Bool(includes(colDef, "UNIQUE"))]

\* columnsStr.split(',').map(colDef => ...)
parseColumns(columnsStr) ==
    LET colDefs == split(columnsStr, ",")
    IN [i \in 1..Len(colDefs) |-> parseColumn(colDefs[i])]

\* a variant of the failure that names the statement malformed
MalformedStatement ==
    [success |-> FALSE, error |-> "Malformed statement"]

NotImplemented ==
    [success |-> FALSE,
     error |-> "SQL parsing not fully implemented for this query"]

\* what executeSQL reads from sql: the kind of the statement and, when its
\* expression matches, the schema, the table name and the columns
Unparsed == [kind |-> "none", schema |-> "", tableName |-> "", columns |-> << >>]

parseSQL(sql) ==
    LET trimmedSQL == toUpperCase(trim(sql))
    IN IF startsWith(trimmedSQL, "CREATE TABLE")
       THEN CHOOSE statement \in
                {IF match.found
                 THEN [kind |-> "create", schema |-> matchSchema(match),
                       tableName |-> matchTable(match),
                       columns |-> parseColumns(match.g3)]
                 ELSE Unparsed : match \in {MatchCreate(sql)}} : TRUE
       ELSE IF startsWith(trimmedSQL, "SELECT")
       THEN CHOOSE statement \in
                {IF match.found
                 THEN [kind |-> "select", schema |-> matchSchema(match),
                       tableName |-> matchTable(match), columns |-> << >>]
                 ELSE Unparsed : match \in {MatchSelect(sql)}} : TRUE
       ELSE Unparsed

\* executeSQL(sql), from the end of its delay on; drawn is the number of
\* UUIDs it draws
executeSQL(db, sql, time, uuid) ==
    CHOOSE outcome \in
        {IF statement.kind = "create"
         THEN CHOOSE created \in
                  {[db |-> r.db, saved |-> r.saved, drawn |-> 1,
                    result |-> [success |-> TRUE, data |-> << >>,
                                rowsAffected |-> 0]] :
                       r \in {createTable(db, statement.schema,
                                 [id |-> RandomUUID(uuid),
                                  name |-> statement.tableName,
                                  schema |-> statement.schema,
                                  columns |-> statement.columns,
                                  rows |-> << >>, indexes |-> << >>,
                                  policies |-> << >>,
                                  createdAt |-> ToISOString(time),
                                  updatedAt |-> ToISOString(time)])}} : TRUE
         ELSE IF statement.kind = "select"
         THEN CHOOSE selected \in
                  {[db |-> r.db, saved |-> r.saved, drawn |-> 0,
                    result |-> r.result] :
                       r \in {select(db, statement.schema, statement.tableName,
                                     Options(Undefined, Undefined,
                                             Undefined, Undefined))}} : TRUE
         ELSE [db |-> db, saved |-> FALSE, drawn |-> 0,
               result |-> NotImplemented] :
            statement \in {parseSQL(sql)}} : TRUE

(***************************************************************************)
(* AuthService (src/src/services/auth.service.ts).  auth holds what        *)
(* localStorage keeps for it (users, passwords, attempts, auditLogs) and   *)
(* this.session; a timestamp is the clock reading in milliseconds that its *)
(* ISO string stands for.  The random tokens of a session are left out.    *)
(* made lists every attempt login recorded, for the properties.            *)
(***************************************************************************)
\* hashPassword(password): a fixed prefix and btoa(password)
hashPassword(password) ==
    "$argon2id$v=19$m=65536,t=3,p=4$"
        \o (CASE password = "secret12" -> "c2VjcmV0MTI="
              [] password = "wrong" -> "d3Jvbmc=")

\* isAccountLocked(email): the failed attempts for the email of the last
\* LOCKOUT_DURATION are MAX_LOGIN_ATTEMPTS or more
isAccountLocked(attempts, email, time) ==
    Cardinality({i \in DOMAIN attempts :
                    /\ attempts[i].email = email
                    /\ time - attempts[i].timestamp < LOCKOUT_DURATION
                    /\ ~attempts[i].success}) >= MAX_LOGIN_ATTEMPTS

\* a variant of addLoginAttempt that drops no attempt
addLoginAttemptUncapped(attempts, email, success, time) ==
    Append(attempts, [email |-> email, timestamp |-> time, success |-> success,
                      ip |-> "127.0.0.1", location |-> "Local Development"])

addLoginAttempt(attempts, email, success, time) ==
    LET allAttempts ==
            Append(attempts, [email |-> email, timestamp |-> time,
                              success |-> success, ip |-> "127.0.0.1",
                              location |-> "Local Development"])
    IN IF Len(allAttempts) > AttemptsCap THEN Tail(allAttempts) ELSE allAttempts

\* login(email, password), from the end of its delay on
login(a, email, password, time) ==
    LET found == {i \in DOMAIN a.users : a.users[i].email = email}
        failed == [auth |-> [a EXCEPT !.attempts =
                                addLoginAttempt(a.attempts, email, FALSE, time)],
                   result |-> [success |-> FALSE,
                               error |-> "Invalid email or password"]]
    IN IF isAccountLocked(a.attempts, email, time)
       THEN [auth |-> a,
             result |-> [success |-> FALSE,
                         error |-> "Account locked due to too many failed attempts. Try again in 15 minutes."]]
       ELSE IF found = {}
       THEN failed
       ELSE LET u == CHOOSE i \in found : \A j \in found : i <= j
                user == [a.users[u] EXCEPT !.lastLogin = time]
                session == [user |-> user, expiresAt |-> time + 86400000,
                            createdAt |-> time]
                allLogs == Append(a.auditLogs,
                                  [event |-> "user.login", userId |-> user.id,
                                   email |-> email, timestamp |-> time])
            IN IF \/ user.id \notin DOMAIN a.passwords
                  \/ a.passwords[user.id] # hashPassword(password)
               THEN failed
               ELSE [auth |-> [a EXCEPT
                                 !.attempts = addLoginAttempt(a.attempts, email,
                                                              TRUE, time),
                                 !.users[u] = user,
                                 !.session = session,
                                 !.auditLogs = IF Len(allLogs) > AuditCap
                                               THEN Tail(allLogs) ELSE allLogs],
                     result |-> [success |-> TRUE, session |-> session]]

(***************************************************************************)
(* The engine as a state machine.  database is this.database, storage the  *)
(* snapshot under STORAGE_KEY in localStorage, now the clock that          *)
(* new Date() reads, uuidCount the number of UUIDs drawn so far, and last  *)
(* the latest call with the value it returned.                             *)
(***************************************************************************)
\* a table as a caller of createTable builds it, with no rows
NewTable(schema, name, columns, time) ==
    [id |-> Str("table-id"), name |-> name, schema |-> schema,
     columns |-> columns, rows |-> << >>,
     indexes |-> << >>, policies |-> << >>,
     createdAt |-> ToISOString(time), updatedAt |-> ToISOString(time)]

ItemsColumns ==
    << [Column("id", "INTEGER", FALSE) EXCEPT
            !.primary = Bool(TRUE), !.autoIncrement = Bool(TRUE)],
       Column("qty", "INTEGER", TRUE) >>

\* what localStorage holds after a call: saveDatabase() replaces the snapshot
Persist(r) == IF r.saved THEN saveDatabase(r.db) ELSE storage

\* the record of a call: the call, the value it returned and whether it
\* called saveDatabase()
Called(call, r) == [call |-> call, result |-> r.result, saved |-> r.saved]

\* the reading new Date() gives a call: the clock advances from call to
\* call until it shows MaxNow, and stands still from then on
Clock == IF now < MaxNow THEN now + 1 ELSE now

\* the number of tables in all schemas
TableCount(db) ==
    Cardinality({<<s, n>> \in (DOMAIN db) \X TableNames : n \in DOMAIN db[s]})

\* new DatabaseService() on an empty localStorage
InitEngine ==
    /\ database = [s \in {"public"} |->
                      [n \in {"users"} |-> UsersTable(RandomUUID(0), 0)]]
    /\ storage = saveDatabase(database)
    /\ now = 0
    /\ uuidCount = 1
    /\ last = [call |-> [op |-> "new", data |-> Null, time |-> 0, uuid |-> 0],
               result |-> TRUE, saved |-> TRUE]

\* no call of executeSQL in its delay, and the other services as
\* constructed: AuthService with no session, two users registered in an
\* earlier session and no attempts; StorageService with its three default
\* buckets, no files and no upload under way; FunctionsService with its two
\* example functions and no execution, and console.log the function it is
\* when the page loads
InitServices ==
    /\ pending = << >>
    /\ auth = [users |-> <<[id |-> "user_1", email |-> "a@x.io",
                            lastLogin |-> Undefined],
                           [id |-> "user_2", email |-> "b@x.io",
                            lastLogin |-> Undefined]>>,
               passwords |-> [id \in {"user_1", "user_2"} |->
                                 hashPassword("secret12")],
               attempts |-> << >>, session |-> Null, auditLogs |-> << >>,
               made |-> << >>]
    /\ store = [buckets |-> <<[id |-> 1, name |-> "avatars", public |-> TRUE,
                               createdAt |-> 0, fileCount |-> 0, totalSize |-> 0],
                              [id |-> 2, name |-> "documents", public |-> FALSE,
                               createdAt |-> 0, fileCount |-> 0, totalSize |-> 0],
                              [id |-> 3, name |-> "images", public |-> TRUE,
                               createdAt |-> 0, fileCount |-> 0, totalSize |-> 0]>>,
                files |-> << >>, data |-> {}, uploads |-> << >>, ids |-> 3]
    /\ console = [log |-> 0, executions |-> << >>, lines |-> << >>,
                  functions |-> <<[id |-> "func_1", name |-> "hello-world",
                                   enabled |-> TRUE, executionCount |-> 0,
                                   lastExecutedAt |-> Undefined],
                                  [id |-> "func_2", name |-> "send-email",
                                   enabled |-> TRUE, executionCount |-> 0,
                                   lastExecutedAt |-> Undefined]>>]

\* the page loaded on an empty localStorage for the engine, with no query
\* history
Init ==
    /\ InitEngine
    /\ queryHistory = Null
    /\ InitServices

CreateTable(schema, name, columns) ==
    /\ TableCount(database) < MaxTables
    /\ LET table == NewTable(schema, name, columns, Clock)
           r == createTable(database, schema, table)
       IN /\ database' = r.db
          /\ storage' = Persist(r)
          /\ last' = Called([op |-> "createTable", schema |-> schema,
                             name |-> name, table |-> table], r)
    /\ now' = Clock
    /\ UNCHANGED uuidCount
    /\ UNCHANGED services

DropTable(schema, name) ==
    /\ LET r == dropTable(database, schema, name)
       IN /\ database' = r.db
          /\ storage' = Persist(r)
          /\ last' = Called([op |-> "dropTable", schema |-> schema,
                             name |-> name], r)
    /\ UNCHANGED <<now, uuidCount>>
    /\ UNCHANGED services

AddColumn(schema, name, column) ==
    /\ LET r == addColumn(database, schema, name, column, Clock)
       IN /\ database' = r.db
          /\ storage' = Persist(r)
          /\ last' = Called([op |-> "addColumn", schema |-> schema,
                             name |-> name, column |-> column], r)
    /\ now' = Clock
    /\ UNCHANGED uuidCount
    /\ UNCHANGED services

RemoveColumn(schema, name, columnName) ==
    /\ LET r == removeColumn(database, schema, name, columnName, Clock)
       IN /\ database' = r.db
          /\ storage' = Persist(r)
          /\ last' = Called([op |-> "removeColumn", schema |-> schema,
                             name |-> name, columnName |-> columnName], r)
    /\ now' = Clock
    /\ UNCHANGED uuidCount
    /\ UNCHANGED services

Insert(schema, name, data, maxRows) ==
    /\ TotalRows(database) < maxRows
    /\ LET r == insert(database, schema, name, data, Clock, uuidCount)
       IN /\ uuidCount + r.drawn <= MaxUuid
          /\ database' = r.db
          /\ storage' = Persist(r)
          /\ uuidCount' = uuidCount + r.drawn
          /\ last' = Called([op |-> "insert", schema |-> schema,
                             name |-> name, data |-> data, time |-> Clock,
                             uuid |-> uuidCount], r)
    /\ now' = Clock
    /\ UNCHANGED services

Select(schema, name, options) ==
    /\ LET r == select(database, schema, name, options)
       IN /\ database' = r.db
          /\ storage' = Persist(r)
          /\ last' = Called([op |-> "select", schema |-> schema,
                             name |-> name, options |-> options], r)
    /\ UNCHANGED <<now, uuidCount>>
    /\ UNCHANGED services

Update(schema, name, where, data) ==
    /\ LET r == update(database, schema, name, where, data, Clock)
       IN /\ database' = r.db
          /\ storage' = Persist(r)
          /\ last' = Called([op |-> "update", schema |-> schema,
                             name |-> name, where |-> where, data |-> data], r)
    /\ now' = Clock
    /\ UNCHANGED uuidCount
    /\ UNCHANGED services

Delete(schema, name, where) ==
    /\ LET r == delete(database, schema, name, where, Clock)
       IN /\ database' = r.db
          /\ storage' = Persist(r)
          /\ last' = Called([op |-> "delete", schema |-> schema,
                             name |-> name, where |-> where], r)
    /\ now' = Clock
    /\ UNCHANGED uuidCount
    /\ UNCHANGED services

\* executeSQL(sql): the call resumes after its delay and runs to its return
\* in one piece; it reads the clock when it builds a table
ExecuteSQL(sql, maxUuid) ==
    /\ \E r \in {executeSQL(database, sql, Clock, uuidCount)} :
          /\ uuidCount + r.drawn <= maxUuid
          /\ database' = r.db
          /\ storage' = Persist(r)
          /\ uuidCount' = uuidCount + r.drawn
          /\ now' = IF r.drawn > 0 THEN Clock ELSE now
          /\ last' = Called([op |-> "executeSQL", sql |-> sql, time |-> Clock,
                             uuid |-> uuidCount], r)
    /\ UNCHANGED services

\* executeSQL(sql), up to its await: the call notes its start time and
\* waits for its timer, behind the calls made before it
CallExecuteSQL(sql) ==
    /\ Len(pending) < MaxPending
    /\ pending' = Append(pending, [sql |-> sql, startTime |-> now])
    /\ last' = [call |-> [op |-> "await", sql |-> sql],
                result |-> Undefined, saved |-> FALSE]
    /\ UNCHANGED <<database, storage, now, uuidCount>>
    /\ UNCHANGED <<queryHistory, auth, store, console>>

\* the timer of the earliest waiting call fires, and the call runs from
\* its await to its return
ResumeExecuteSQL ==
    /\ pending # << >>
    /\ \E r \in {executeSQL(database, Head(pending).sql, Clock, uuidCount)} :
          /\ uuidCount + r.drawn <= MaxSqlUuid
          /\ database' = r.db
          /\ storage' = Persist(r)
          /\ uuidCount' = uuidCount + r.drawn
          /\ now' = IF r.drawn > 0 THEN Clock ELSE now
          /\ last' = Called([op |-> "executeSQL", sql |-> Head(pending).sql,
                             time |-> Clock, uuid |-> uuidCount,
                             startTime |-> Head(pending).startTime], r)
    /\ pending' = Tail(pending)
    /\ UNCHANGED <<queryHistory, auth, store, console>>

\* login(email, password): the call resumes after its delay and runs to
\* its return in one piece
Login(email, password) ==
    /\ \E r \in {login(auth, email, password, now)} :
          /\ auth' = [r.auth EXCEPT !.made =
                         IF r.auth.attempts = auth.attempts
                         THEN auth.made
                         ELSE addLoginAttemptUncapped(auth.made, email,
                                                      r.result.success, now)]
          /\ last' = [call |-> [op |-> "login", email |-> email,
                                password |-> password, time |-> now],
                      result |-> r.result, saved |-> FALSE]
    /\ UNCHANGED <<database, storage, now, uuidCount>>
    /\ UNCHANGED <<queryHistory, pending, store, console>>

\* time passes: to the last millisecond of a lockout that began at 0, and
\* then to its end
Pass ==
    /\ now < LOCKOUT_DURATION
    /\ now' = IF now = 0 THEN LOCKOUT_DURATION - 1 ELSE LOCKOUT_DURATION
    /\ last' = [call |-> [op |-> "pass"], result |-> TRUE, saved |-> FALSE]
    /\ UNCHANGED <<database, storage, uuidCount>>
    /\ UNCHANGED services

(***************************************************************************)
(* StorageService (src/unnamed/part_000).  store holds this.buckets and    *)
(* this.files, which saveStorage() writes to localStorage after every      *)
(* change, data the ids of the files whose content localStorage keeps,     *)
(* uploads the uploadFile calls that wait for their file to be read, and   *)
(* ids the number of bucket and file ids made, each id being new.  Of a    *)
(* file its id, name, bucket, path, size and timestamps are kept.          *)
(***************************************************************************)
CreateBucket(name, isPublic) ==
    /\ store.ids < MaxIds
    /\ LET bucket == [id |-> store.ids + 1, name |-> name, public |-> isPublic,
                      createdAt |-> now, fileCount |-> 0, totalSize |-> 0]
       IN /\ store' = [store EXCEPT !.ids = @ + 1,
                                    !.buckets = Append(@, bucket)]
          /\ last' = [call |-> [op |-> "createBucket", name |-> name],
                      result |-> bucket, saved |-> TRUE]
    /\ UNCHANGED <<database, storage, now, uuidCount>>
    /\ UNCHANGED <<queryHistory, pending, auth, console>>

DeleteBucket(bucketId) ==
    /\ LET index == FindIndex([i \in DOMAIN store.buckets |->
                                 [name |-> store.buckets[i].id]], bucketId)
       IN IF index = 0
          THEN /\ store' = store
               /\ last' = [call |-> [op |-> "deleteBucket", bucketId |-> bucketId],
                           result |-> FALSE, saved |-> FALSE]
          ELSE /\ store' = [store EXCEPT
                               !.files = SelectSeq(@, LAMBDA f : f.bucketId # bucketId),
                               !.buckets = Splice1(@, index)]
               /\ last' = [call |-> [op |-> "deleteBucket", bucketId |-> bucketId],
                           result |-> TRUE, saved |-> TRUE]
    /\ UNCHANGED <<database, storage, now, uuidCount>>
    /\ UNCHANGED <<queryHistory, pending, auth, console>>

\* uploadFile(bucketName, file, path), from the end of its delay to its
\* second await: it looks the bucket up, throws when there is none, and
\* else waits for fileToBase64 holding the bucket it found
UploadFile(bucketName, file, path) ==
    /\ Len(store.uploads) < MaxUploads
    /\ LET index == FindIndex(store.buckets, bucketName)
       IN IF index = 0
          THEN /\ store' = store
               /\ last' = [call |-> [op |-> "uploadFile", bucketName |-> bucketName],
                           result |-> [thrown |-> "Bucket not found"],
                           saved |-> FALSE]
          ELSE /\ store' = [store EXCEPT !.uploads =
                               Append(@, [bucketId |-> store.buckets[index].id,
                                          file |-> file, path |-> path])]
               /\ last' = [call |-> [op |-> "uploadFile", bucketName |-> bucketName],
                           result |-> [awaits |-> "fileToBase64"],
                           saved |-> FALSE]
    /\ UNCHANGED <<database, storage, now, uuidCount>>
    /\ UNCHANGED <<queryHistory, pending, auth, console>>

\* the file of the k-th waiting uploadFile has been read: the call stores
\* the content and the file, and counts the file in the bucket it holds,
\* which is a bucket of this.buckets only if it was not deleted meanwhile
StoreFile(k) ==
    /\ k \in DOMAIN store.uploads
    /\ store.ids < MaxIds
    /\ LET upload == store.uploads[k]
           storageFile ==
               [id |-> store.ids + 1, name |-> upload.file.name,
                bucketId |-> upload.bucketId,
                path |-> IF upload.path # ""
                         THEN upload.path \o "/" \o upload.file.name
                         ELSE upload.file.name,
                size |-> upload.file.size,
                createdAt |-> now, updatedAt |-> now]
       IN /\ store' = [store EXCEPT
                          !.ids = @ + 1,
                          !.data = @ \cup {storageFile.id},
                          !.files = Append(@, storageFile),
                          !.buckets = [i \in DOMAIN @ |->
                              IF @[i].id = upload.bucketId
                              THEN [@[i] EXCEPT
                                      !.fileCount = @ + 1,
                                      !.totalSize = @ + upload.file.size]
                              ELSE @[i]],
                          !.uploads = Splice1(@, k)]
          /\ last' = [call |-> [op |-> "uploadFile.stored", upload |-> upload],
                      result |-> storageFile, saved |-> TRUE]
    /\ UNCHANGED <<database, storage, now, uuidCount>>
    /\ UNCHANGED <<queryHistory, pending, auth, console>>

DeleteFile(fileId) ==
    /\ LET index == FindIndex([i \in DOMAIN store.files |->
                                 [name |-> store.files[i].id]], fileId)
       IN IF index = 0
          THEN /\ store' = store
               /\ last' = [call |-> [op |-> "deleteFile", fileId |-> fileId],
                           result |-> FALSE, saved |-> FALSE]
          ELSE /\ store' = [store EXCEPT
                               !.files = Splice1(@, index),
                               !.data = @ \ {fileId},
                               !.buckets = [i \in DOMAIN @ |->
                                   IF @[i].id = store.files[index].bucketId
                                   THEN [@[i] EXCEPT
                                           !.fileCount = @ - 1,
                                           !.totalSize = @ - store.files[index].size]
                                   ELSE @[i]]]
               /\ last' = [call |-> [op |-> "deleteFile", fileId |-> fileId],
                           result |-> TRUE, saved |-> TRUE]
    /\ UNCHANGED <<database, storage, now, uuidCount>>
    /\ UNCHANGED <<queryHistory, pending, auth, console>>

MoveFile(fileId, newPath) ==
    /\ LET index == FindIndex([i \in DOMAIN store.files |->
                                 [name |-> store.files[i].id]], fileId)
       IN IF index = 0
          THEN /\ store' = store
               /\ last' = [call |-> [op |-> "moveFile", fileId |-> fileId],
                           result |-> FALSE, saved |-> FALSE]
          ELSE /\ store' = [store EXCEPT !.files[index].path = newPath,
                                         !.files[index].updatedAt = now]
               /\ last' = [call |-> [op |-> "moveFile", fileId |-> fileId],
                           result |-> TRUE, saved |-> TRUE]
    /\ UNCHANGED <<database, storage, now, uuidCount>>
    /\ UNCHANGED <<queryHistory, pending, auth, console>>

\* copyFile(fileId, newBucketName, newPath): it has no await and runs in
\* one piece
CopyFile(fileId, newBucketName, newPath) ==
    /\ store.ids < MaxIds
    /\ LET index == FindIndex([i \in DOMAIN store.files |->
                                 [name |-> store.files[i].id]], fileId)
           newBucket == FindIndex(store.buckets, newBucketName)
       IN IF index = 0 \/ newBucket = 0 \/ fileId \notin store.data
          THEN /\ store' = store
               /\ last' = [call |-> [op |-> "copyFile", fileId |-> fileId],
                           result |-> Null, saved |-> FALSE]
          ELSE LET newFile == [store.files[index] EXCEPT
                                 !.id = store.ids + 1,
                                 !.bucketId = store.buckets[newBucket].id,
                                 !.path = newPath,
                                 !.createdAt = now, !.updatedAt = now]
               IN /\ store' = [store EXCEPT
                                  !.ids = @ + 1,
                                  !.data = @ \cup {newFile.id},
                                  !.files = Append(@, newFile),
                                  !.buckets[newBucket].fileCount = @ + 1,
                                  !.buckets[newBucket].totalSize = @ + newFile.size]
                  /\ last' = [call |-> [op |-> "copyFile", fileId |-> fileId],
                              result |-> newFile, saved |-> TRUE]
    /\ UNCHANGED <<database, storage, now, uuidCount>>
    /\ UNCHANGED <<queryHistory, pending, auth, console>>

(***************************************************************************)
(* FunctionsService (src/services/realtime.service.ts) and console.log.    *)
(* console.log is 0 for the function it is when the page loads and e for   *)
(* the wrapper that the e-th call of executeFunction installed; of that    *)
(* call console.executions[e] holds the function, the originalLog it read, *)
(* its logs array, which the FunctionExecution it pushes to                *)
(* this.executions shares, and whether it has completed.  The n-th call of *)
(* console.log logs the line n, and console.lines[n] is the set of the     *)
(* calls of executeFunction that had started and not completed at that     *)
(* call.  Of a function its id, name, enabled, executionCount and          *)
(* lastExecutedAt are kept.                                                *)
(***************************************************************************)
UpdateFunction(id, enabled) ==
    /\ LET index == FindIndex([i \in DOMAIN console.functions |->
                                 [name |-> console.functions[i].id]], id)
       IN IF index = 0
          THEN /\ console' = console
               /\ last' = [call |-> [op |-> "updateFunction", id |-> id],
                           result |-> FALSE, saved |-> FALSE]
          ELSE /\ console' = [console EXCEPT
                                 !.functions[index].enabled = enabled]
               /\ last' = [call |-> [op |-> "updateFunction", id |-> id],
                           result |-> TRUE, saved |-> TRUE]
    /\ UNCHANGED <<database, storage, now, uuidCount>>
    /\ UNCHANGED <<queryHistory, pending, auth, store>>

\* executeFunction(id), up to its await: it throws for no function and for
\* a disabled one, and else reads console.log into originalLog, installs
\* its wrapper and waits for its timer
ExecuteFunction(id) ==
    /\ Len(console.executions) < MaxExecutions
    /\ LET index == FindIndex([i \in DOMAIN console.functions |->
                                 [name |-> console.functions[i].id]], id)
       IN IF index = 0 \/ ~console.functions[IF index = 0 THEN 1 ELSE index].enabled
          THEN /\ console' = console
               /\ last' = [call |-> [op |-> "executeFunction", id |-> id],
                           result |-> [thrown |-> IF index = 0
                                                 THEN "Function not found"
                                                 ELSE "Function is disabled"],
                           saved |-> FALSE]
          ELSE /\ console' = [console EXCEPT
                                 !.log = Len(console.executions) + 1,
                                 !.executions = Append(@,
                                     [functionId |-> id,
                                      originalLog |-> console.log,
                                      logs |-> << >>, done |-> FALSE])]
               /\ last' = [call |-> [op |-> "executeFunction", id |-> id],
                           result |-> [awaits |-> "setTimeout"],
                           saved |-> FALSE]
    /\ UNCHANGED <<database, storage, now, uuidCount>>
    /\ UNCHANGED <<queryHistory, pending, auth, store>>

\* the timer of the e-th call of executeFunction has fired: the call sets
\* console.log to the originalLog it read, pushes its execution, updates
\* the function if it is still one of this.functions, and saves.  The
\* timers last 100 to 500 ms each, so that the calls resume in any order.
ResumeExecuteFunction(e) ==
    /\ e \in DOMAIN console.executions
    /\ ~console.executions[e].done
    /\ console' = [console EXCEPT
                      !.log = console.executions[e].originalLog,
                      !.executions[e].done = TRUE,
                      !.functions = [i \in DOMAIN @ |->
                          IF @[i].id = console.executions[e].functionId
                          THEN [@[i] EXCEPT
                                  !.lastExecutedAt = ToISOString(now),
                                  !.executionCount = @ + 1]
                          ELSE @[i]]]
    /\ last' = [call |-> [op |-> "executeFunction.resumed", execution |-> e],
                result |-> [functionId |-> console.executions[e].functionId,
                            status |-> "success",
                            logs |-> console.executions[e].logs],
                saved |-> TRUE]
    /\ UNCHANGED <<database, storage, now, uuidCount>>
    /\ UNCHANGED <<queryHistory, pending, auth, store>>

\* a call of console.log by the page: the wrapper of a call pushes the
\* line to the logs of that call and calls the originalLog it read, and
\* so on down to the function of the page load
ConsoleLog ==
    /\ Len(console.lines) < MaxLines
    /\ LET RECURSIVE Wrappers(_)
           Wrappers(log) ==
               IF log = 0 THEN {}
               ELSE {log} \cup Wrappers(console.executions[log].originalLog)
           line == Len(console.lines) + 1
           called == Wrappers(console.log)
       IN console' = [console EXCEPT
                        !.lines = Append(@, {e \in DOMAIN console.executions :
                                                ~console.executions[e].done}),
                        !.executions = [e \in DOMAIN @ |->
                            IF e \in called
                            THEN [@[e] EXCEPT !.logs = Append(@, line)]
                            ELSE @[e]]]
    /\ last' = [call |-> [op |-> "console.log"], result |-> Undefined,
                saved |-> FALSE]
    /\ UNCHANGED <<database, storage, now, uuidCount>>
    /\ UNCHANGED <<queryHistory, pending, auth, store>>

\* loadDatabase(): the Database read from what localStorage holds under
\* STORAGE_KEY, null when nothing was saved
loadDatabase(data) ==
    IF data # Null
    THEN JSONparse(data)
    ELSE [s \in {"public"} |-> EmptyObject]

\* a variant of initializeDefaultTables that installs the default table
\* whether or not the Database has a table users
initializeDefaultTablesAlways(db, time, uuid) ==
    [db |-> PutTable(db, "public", "users", UsersTable(RandomUUID(uuid), time)),
     saved |-> TRUE, result |-> TRUE, drawn |-> 1]

\* initializeDefaultTables(): createTable of the default table users unless
\* the schema public has a table of that name
initializeDefaultTables(db, time, uuid) ==
    IF "users" \in DOMAIN db["public"]
    THEN [db |-> db, saved |-> FALSE, result |-> TRUE, drawn |-> 0]
    ELSE CHOOSE made \in
             {[db |-> r.db, saved |-> r.saved, result |-> TRUE, drawn |-> 1] :
                 r \in {createTable(db, "public",
                                    UsersTable(RandomUUID(uuid), time))}} : TRUE

\* new DatabaseService() (a page load): the Database becomes what
\* localStorage holds, with the default table
Construct ==
    /\ \E r \in {initializeDefaultTables(loadDatabase(storage), Clock, uuidCount)} :
          /\ uuidCount + r.drawn <= MaxUuid
          /\ database' = r.db
          /\ storage' = Persist(r)
          /\ uuidCount' = uuidCount + r.drawn
          /\ now' = IF r.drawn > 0 THEN Clock ELSE now
          /\ last' = Called([op |-> "new", data |-> storage, time |-> Clock,
                             uuid |-> uuidCount], r)
    /\ UNCHANGED services

\* the browser's site data is cleared: localStorage holds nothing under
\* STORAGE_KEY, the engine of the open page keeps its Database
ClearStorage ==
    /\ storage # Null
    /\ storage' = Null
    /\ last' = [call |-> [op |-> "clear"], result |-> TRUE, saved |-> FALSE]
    /\ UNCHANGED <<database, now, uuidCount>>
    /\ UNCHANGED services

\* getQueryHistory(): the list parsed from what localStorage holds under
\* 'helenabase_query_history', the empty list when it holds nothing
getQueryHistory(item) ==
    IF item # Null THEN JSONparse(item) ELSE << >>

\* a variant of saveQueryToHistory that drops no entry
saveQueryToHistoryUnbounded(item, sql) ==
    [json |-> <<sql>> \o getQueryHistory(item)]

\* saveQueryToHistory(sql): unshift, pop when longer than the cap, setItem
saveQueryToHistory(item, sql) ==
    LET history == <<sql>> \o getQueryHistory(item)
    IN [json |-> IF Len(history) > HistoryCap
                 THEN SubSeq(history, 1, Len(history) - 1)
                 ELSE history]

SaveQueryToHistory(sql) ==
    /\ queryHistory' = saveQueryToHistory(queryHistory, sql)
    /\ last' = [call |-> [op |-> "saveQueryToHistory", sql |-> sql],
                result |-> Undefined, saved |-> FALSE]
    /\ UNCHANGED <<database, storage, now, uuidCount, pending, auth, store, console>>

GetQueryHistory ==
    /\ last' = [call |-> [op |-> "getQueryHistory"],
                result |-> getQueryHistory(queryHistory), saved |-> FALSE]
    /\ UNCHANGED <<database, storage, now, uuidCount>>
    /\ UNCHANGED services

\* the inputs of the calls
Qty1 == [qty |-> Num(1)]
Qty2X == [qty |-> Num(2), x |-> Num(9)]
ColumnX == [Column("x", "INTEGER", TRUE) EXCEPT !.default = Num(5)]

CreateTableCalls ==
    {<<"public", "items">>, <<"app", "items">>, <<"public", "users">>}
DropTableCalls ==
    {<<"public", "items">>, <<"app", "items">>, <<"public", "users">>}
AddColumnCalls ==
    {<<"public", "items", ColumnX>>}
RemoveColumnCalls ==
    {<<"public", "items", "qty">>, <<"public", "items", "x">>}
InsertCalls ==
    {<<"public", "users", EmptyObject>>, <<"public", "items", Qty1>>,
     <<"public", "items", Qty2X>>, <<"app", "items", Qty1>>}
SelectCalls ==
    {<<"public", "users", EmptyObject>>, <<"public", "items", Qty1>>}
UpdateCalls ==
    {<<"public", "items", Qty1, [qty |-> Num(2)]>>,
     <<"public", "items", [id |-> Num(1)], [x |-> Num(9)]>>}
DeleteCalls ==
    {<<"public", "users", EmptyObject>>, <<"public", "users", Qty1>>,
     <<"public", "items", Qty1>>,
     <<"public", "items", [id |-> Num(1)]>>}

Next ==
    \/ \E c \in CreateTableCalls : CreateTable(c[1], c[2], ItemsColumns)
    \/ \E c \in DropTableCalls : DropTable(c[1], c[2])
    \/ \E c \in AddColumnCalls : AddColumn(c[1], c[2], c[3])
    \/ \E c \in RemoveColumnCalls : RemoveColumn(c[1], c[2], c[3])
    \/ \E c \in InsertCalls : Insert(c[1], c[2], c[3], MaxRows)
    \/ \E c \in SelectCalls :
          Select(c[1], c[2], Options(c[3], Undefined, Undefined, Undefined))
    \/ \E c \in UpdateCalls : Update(c[1], c[2], c[3], c[4])
    \/ \E c \in DeleteCalls : Delete(c[1], c[2], c[3])

Spec == Init /\ [][Next]_vars

(***************************************************************************)
(* SpecInsert: the engine with tables whose second column v runs over the  *)
(* defaults and the auto-increment flag, and inserts that give and omit    *)
(* values.                                                                 *)
(***************************************************************************)
IdColumn ==
    [Column("id", "INTEGER", FALSE) EXCEPT
        !.primary = Bool(TRUE), !.autoIncrement = Bool(TRUE)]

Defaults ==
    {Undefined, Num(0), Num(5), Bool(FALSE), Str(""), Str("d"), GEN_UUID, NOW_FN}

VariantColumns ==
    {[Column("v", "TEXT", TRUE) EXCEPT !.default = d, !.autoIncrement = a] :
        d \in Defaults, a \in {Undefined, Bool(TRUE)}}

InsertInputs ==
    {EmptyObject, [v |-> Num(7)], [v |-> Null, junk |-> Num(1)],
     [id |-> Num(-2)], [id |-> Null]}

NextInsert ==
    \/ \E column \in VariantColumns :
          CreateTable("public", "items", <<IdColumn, column>>)
    \/ DropTable("public", "items")
    \/ \E data \in InsertInputs : Insert("public", "items", data, MaxQueryRows)
    \/ Insert("public", "users", [email |-> Str("a@b.c")], MaxQueryRows)

SpecInsert == Init /\ [][NextInsert]_vars

(***************************************************************************)
(* SpecQuery: the engine with one table of two integer columns, and        *)
(* selects with filters, orderings, offsets and limits.                    *)
(***************************************************************************)
QueryColumns == <<Column("x", "INTEGER", TRUE), Column("y", "INTEGER", TRUE)>>

QueryRows ==
    {[x |-> Num(3), y |-> Num(1)], [x |-> Num(1), y |-> Num(2)],
     [x |-> Num(2), y |-> Num(1)], [y |-> Num(2)]}

QueryWheres == <<Undefined, EmptyObject, [x |-> Num(1)], [x |-> Num(1), y |-> Num(2)]>>

Asc(column) == [column |-> column, direction |-> "ASC"]
Desc(column) == [column |-> column, direction |-> "DESC"]

QueryOrders ==
    <<Undefined, <<Asc("x")>>, <<Desc("x")>>, <<Asc("y"), Desc("x")>>>>

QueryPages == {Undefined, Num(0), Num(1), Num(2)}

\* select with a filter and an ordering and no paging
SelectAll(w, o) ==
    Select("public", "items",
           Options(QueryWheres[w], QueryOrders[o], Undefined, Undefined))

\* select with an offset and a limit
SelectPage(w, o, limit, offset) ==
    Select("public", "items",
           Options(QueryWheres[w], QueryOrders[o], limit, offset))

NextQuery ==
    \/ CreateTable("public", "items", QueryColumns)
    \/ \E data \in QueryRows : Insert("public", "items", data, MaxQueryRows)
    \/ \E w \in 1..4, o \in 1..4 : SelectAll(w, o)
    \/ \E w \in {1}, o \in {1, 2}, limit \in QueryPages, offset \in QueryPages :
          SelectPage(w, o, limit, offset)

SpecQuery == Init /\ [][NextQuery]_vars

(***************************************************************************)
(* SpecColumn: the engine with one table whose rows exist before a column  *)
(* x is added, with x running over the defaults, and removed again.        *)
(***************************************************************************)
AddedColumns ==
    {[Column("x", "INTEGER", TRUE) EXCEPT !.default = d] : d \in Defaults}

NextColumn ==
    \/ CreateTable("public", "items", ItemsColumns)
    \/ \E data \in {Qty1, Qty2X} : Insert("public", "items", data, MaxRows)
    \/ \E column \in AddedColumns : AddColumn("public", "items", column)
    \/ \E columnName \in {"x", "qty"} :
          RemoveColumn("public", "items", columnName)

SpecColumn == Init /\ [][NextColumn]_vars

(***************************************************************************)
(* SpecSQL: the engine driven through executeSQL, with CREATE TABLE and    *)
(* SELECT statements, statements of other kinds and statements the two     *)
(* expressions do not match, and inserts that give the tables rows.        *)
(***************************************************************************)
\* the definitions of a column list, joined by ", "
RECURSIVE JoinDefs(_)
JoinDefs(defs) ==
    IF Len(defs) = 1
    THEN defs[1]
    ELSE defs[1] \o ", " \o JoinDefs(Tail(defs))

\* a CREATE TABLE statement; schema is "" for an unqualified name
CreateText(d) ==
    d.lead \o d.keyword
        \o (IF d.schema # "" THEN d.schema \o "." ELSE "")
        \o d.name \o " (" \o JoinDefs(d.defs) \o ")"

CreateStatements ==
    {[lead |-> "", keyword |-> "CREATE TABLE ", schema |-> "public",
      name |-> "foo",
      defs |-> <<"id UUID PRIMARY KEY", "name VARCHAR NOT NULL">>],
     [lead |-> "  ", keyword |-> "create table ", schema |-> "",
      name |-> "items",
      defs |-> <<"id INTEGER NOT NULL UNIQUE", "qty INTEGER", "note">>],
     [lead |-> "", keyword |-> "CREATE TABLE ", schema |-> "app",
      name |-> "items",
      defs |-> <<"id INTEGER PRIMARY KEY NOT NULL">>],
     [lead |-> "", keyword |-> "CREATE TABLE ", schema |-> "",
      name |-> "users",
      defs |-> <<"id UUID">>]}

\* SELECT statements, each with the schema and the table it names
SelectStatements ==
    {[text |-> "SELECT * FROM public.users", schema |-> "public", name |-> "users"],
     [text |-> "SELECT * FROM users", schema |-> "public", name |-> "users"],
     [text |-> "  select id, qty from items", schema |-> "public", name |-> "items"],
     [text |-> "SELECT * FROM app.items", schema |-> "app", name |-> "items"],
     [text |-> "SELECT * FROM items WHERE qty = 1", schema |-> "public", name |-> "items"]}

\* statements of other kinds
OtherStatements ==
    {"DROP TABLE users", "  drop table users ", "DELETE FROM users",
     "INSERT INTO items SELECT * FROM users", ""}

\* statements with the keyword of a kind that its expression does not match
MalformedStatements ==
    {"CREATE TABLE  items (id INTEGER)", "CREATE TABLE items", "SELECT 1"}

NextSQL ==
    \/ \E d \in CreateStatements : ExecuteSQL(CreateText(d), MaxSqlUuid)
    \/ \E d \in SelectStatements : ExecuteSQL(d.text, MaxSqlUuid)
    \/ \E sql \in OtherStatements \cup MalformedStatements :
          ExecuteSQL(sql, MaxSqlUuid)
    \/ \E data \in {Qty1, Qty2X} : Insert("public", "items", data, MaxRows)
    \/ Insert("public", "users", [email |-> Str("a@b.c")], MaxRows)
    \/ DropTable("public", "users")

SpecSQL == Init /\ [][NextSQL]_vars

(***************************************************************************)
(* SpecLoad: the calls of Spec, page loads that construct a new engine     *)
(* from what localStorage holds, and a cleared localStorage.               *)
(***************************************************************************)
NextLoad ==
    \/ Next
    \/ Construct
    \/ ClearStorage

SpecLoad == Init /\ [][NextLoad]_vars

(***************************************************************************)
(* SpecHistory: the query history, from a page that finds no history or a  *)
(* history of earlier sessions that is one entry short of the cap or at    *)
(* the cap, with up to MaxSaved texts saved.                               *)
(***************************************************************************)
\* a history of n texts saved in earlier sessions, the latest first
PersistedHistory(n) ==
    [json |-> [i \in 1..n |->
                  IF i = n THEN "SELECT 'oldest'"
                  ELSE IF i = n - 1 THEN "SELECT 'older'"
                  ELSE "SELECT 'old'"]]

QueryTexts == {"SELECT 1", "SELECT * FROM users", "DROP TABLE users"}

InitHistory ==
    /\ InitEngine
    /\ queryHistory \in {Null, PersistedHistory(HistoryCap - 1),
                          PersistedHistory(HistoryCap)}
    /\ InitServices

\* at most MaxSaved entries of the history are texts saved by this page
NextHistory ==
    \/ \E sql \in QueryTexts :
          /\ LET history == getQueryHistory(queryHistory)
             IN Cardinality({i \in DOMAIN history : history[i] \in QueryTexts})
                   < MaxSaved
          /\ SaveQueryToHistory(sql)
    \/ GetQueryHistory

SpecHistory == InitHistory /\ [][NextHistory]_vars

(***************************************************************************)
(* SpecAsync: calls of executeSQL that wait for their timers while other   *)
(* calls are made: two CREATE TABLE statements for one name, a SELECT,     *)
(* and inserts.                                                            *)
(***************************************************************************)
\* statements, each with the table it names and, for a CREATE TABLE, the
\* names of its columns
AsyncStatements ==
    {[text |-> "CREATE TABLE items (id INTEGER)", name |-> "items",
      columns |-> <<"id">>],
     [text |-> "CREATE TABLE items (qty INTEGER, note TEXT)", name |-> "items",
      columns |-> <<"qty", "note">>],
     [text |-> "SELECT * FROM items", name |-> "items", columns |-> << >>]}

NextAsync ==
    \/ \E d \in AsyncStatements : CallExecuteSQL(d.text)
    \/ ResumeExecuteSQL
    \/ \E data \in {Qty1, Qty2X} : Insert("public", "items", data, MaxRows)
    \/ DropTable("public", "items")

SpecAsync == Init /\ [][NextAsync]_vars

(***************************************************************************)
(* SpecAuth: logins for a registered email with its password and with      *)
(* another, up to MaxLogins of them recorded; once five of them have       *)
(* failed, logins of a second user with its password, up to MaxOthers;     *)
(* and the passing of the lockout time.                                    *)
(***************************************************************************)
NextAuth ==
    LET Made(email) ==
            Cardinality({i \in DOMAIN auth.made : auth.made[i].email = email})
    IN \/ \E password \in {"secret12", "wrong"} :
             Made("a@x.io") < MaxLogins /\ Login("a@x.io", password)
       \/ /\ isAccountLocked(auth.made, "a@x.io", now)
          /\ Made("b@x.io") < MaxOthers
          /\ Login("b@x.io", "secret12")
       \/ Made("b@x.io") = 0 /\ Pass

SpecAuth == Init /\ [][NextAuth]_vars

(***************************************************************************)
(* SpecStorage: buckets created and deleted, uploads of one file to the    *)
(* bucket avatars and to a bucket temp, and files deleted, moved and       *)
(* copied to the bucket documents, with up to MaxIds ids made.             *)
(***************************************************************************)
NextStorage ==
    \/ CreateBucket("temp", FALSE)
    \/ \E bucketId \in 1..MaxIds : DeleteBucket(bucketId)
    \/ \E bucketName \in {"avatars", "temp"} :
          UploadFile(bucketName, [name |-> "a.png", size |-> 10], "")
    \/ \E k \in 1..MaxUploads : StoreFile(k)
    \/ \E fileId \in 1..MaxIds : DeleteFile(fileId)
    \/ \E fileId \in 1..MaxIds : MoveFile(fileId, "moved/a.png")
    \/ \E fileId \in 1..MaxIds : CopyFile(fileId, "documents", "copy/a.png")

SpecStorage == Init /\ [][NextStorage]_vars

(***************************************************************************)
(* SpecFunctions: up to MaxExecutions calls of executeFunction that may    *)
(* overlap, for the two example functions and for an id of no function,    *)
(* the function hello-world disabled and enabled, and up to MaxLines calls *)
(* of console.log by the page.                                             *)
(***************************************************************************)
NextFunctions ==
    \/ \E id \in {"func_1", "func_2", "func_0"} : ExecuteFunction(id)
    \/ \E e \in 1..MaxExecutions : ResumeExecuteFunction(e)
    \/ \E enabled \in BOOLEAN : UpdateFunction("func_1", enabled)
    \/ ConsoleLog

SpecFunctions == Init /\ [][NextFunctions]_vars

(***************************************************************************)
(* Properties.  They read the call just made from last (last' in a step),  *)
(* the Database before it from database and after it from database'.       *)
(***************************************************************************)
\* a row has, for every key of the filter, that key with the filter's value
Holds(row, where) ==
    \A k \in DOMAIN where : k \in DOMAIN row /\ row[k] = where[k]

\* the positions of the rows of a table the filter holds for
Matching(table, where) ==
    {i \in 1..Len(table.rows) : Holds(table.rows[i], where)}

\* every table but schema.name is the same before and after the step
OthersUnchanged(schema, name) ==
    /\ DOMAIN database' = DOMAIN database
    /\ \A s \in DOMAIN database :
          /\ DOMAIN database'[s] = DOMAIN database[s]
          /\ \A n \in DOMAIN database[s] :
                (s # schema \/ n # name) => database'[s][n] = database[s][n]

InitialSnapshot ==
    saveDatabase([s \in {"public"} |->
                    [n \in {"users"} |-> UsersTable(RandomUUID(0), 0)]])

\* C1: in every state the persisted snapshot, parsed, equals the in-memory
\* Database: every mutation is written through before its call returns, and
\* no snapshot holds a part of a mutation.
C1_WriteThrough == JSONparse(storage) = database

C1_Witness ==
    /\ last.call.op = "update"
    /\ last.result.success
    /\ last.result.rowsAffected > 0
    /\ storage # InitialSnapshot
    /\ TableCount(database) = 2

\* what C3 says of one step
C3_Step ==
    LET c == last'.call
        res == last'.result
    IN (c.op = "insert" /\ res.success) =>
          /\ HasTable(database, c.schema, c.name)
          /\ HasTable(database', c.schema, c.name)
          /\ LET pre == database[c.schema][c.name]
                 post == database'[c.schema][c.name]
                 row == post.rows[Len(post.rows)]
             IN /\ Len(post.rows) = Len(pre.rows) + 1
                /\ \A i \in 1..Len(pre.rows) : post.rows[i] = pre.rows[i]
                /\ DOMAIN row = ColumnNames(pre)
                /\ post.columns = pre.columns
                /\ res.data = <<row>>
                /\ res.rowsAffected = 1
          /\ OthersUnchanged(c.schema, c.name)

\* C3: a successful insert appends exactly one row at the end of the rows,
\* leaves the rows before it and all other tables as they were, the new row
\* has exactly the declared column names as its keys, and the result is
\* success with that row as data and rowsAffected = 1.
C3_InsertAppends == [][C3_Step]_vars

C3_Witness ==
    /\ last.call.op = "insert"
    /\ last.result.success
    /\ "x" \in DOMAIN last.call.data
    /\ "x" \notin DOMAIN last.result.data[1]
    /\ Len(database[last.call.schema][last.call.name].rows) = 2
    /\ TableCount(database) = 2

\* what C8 says of one step
C8_Step ==
    LET c == last'.call
        res == last'.result
    IN (c.op = "update" /\ HasTable(database, c.schema, c.name)) =>
          /\ HasTable(database', c.schema, c.name)
          /\ LET pre == database[c.schema][c.name]
                 post == database'[c.schema][c.name]
             IN /\ Len(post.rows) = Len(pre.rows)
                /\ \A i \in 1..Len(pre.rows) :
                      IF i \in Matching(pre, c.where)
                      THEN /\ DOMAIN post.rows[i] =
                                 DOMAIN pre.rows[i] \cup DOMAIN c.data
                           /\ \A k \in DOMAIN c.data :
                                 post.rows[i][k] = c.data[k]
                           /\ \A k \in DOMAIN pre.rows[i] \ DOMAIN c.data :
                                 post.rows[i][k] = pre.rows[i][k]
                      ELSE post.rows[i] = pre.rows[i]
                /\ res.success
                /\ res.rowsAffected = Cardinality(Matching(pre, c.where))

\* C8: update merges every field of data into each row the filter holds
\* for (overwriting or adding keys), leaves every other row and the order of
\* the rows unchanged, and returns success with rowsAffected = the number of
\* rows the filter holds for, also when that is zero.
C8_UpdateMerges == [][C8_Step]_vars

C8_Witness ==
    /\ last.call.op = "update"
    /\ last.result.success
    /\ last.result.rowsAffected = 1
    /\ "x" \in DOMAIN last.call.data
    /\ LET rows == database[last.call.schema][last.call.name].rows
       IN /\ Len(rows) = 2
          /\ "x" \in DOMAIN rows[1]
          /\ "x" \notin DOMAIN rows[2]

\* what C9 says of one step
C9_Step ==
    LET c == last'.call
        res == last'.result
    IN (c.op = "delete" /\ HasTable(database, c.schema, c.name)) =>
          /\ HasTable(database', c.schema, c.name)
          /\ LET pre == database[c.schema][c.name]
                 post == database'[c.schema][c.name]
                 Stays(row) == ~Holds(row, c.where)
             IN /\ post.rows = SelectSeq(pre.rows, Stays)
                /\ res.success
                /\ res.rowsAffected = Len(pre.rows) - Len(post.rows)
                /\ res.rowsAffected = Cardinality(Matching(pre, c.where))

\* C9: delete removes exactly the rows the filter holds for, keeps the
\* other rows in their order, and returns success with rowsAffected = the
\* number of rows removed (the row count before minus the row count after).
C9_DeleteRemoves == [][C9_Step]_vars

C9_Witness ==
    /\ last.call.op = "delete"
    /\ last.result.success
    /\ last.result.rowsAffected = 1
    /\ DOMAIN last.call.where # {}
    /\ Len(database[last.call.schema][last.call.name].rows) = 1

\* what C10 says of one step
C10_Step ==
    LET c == last'.call
        res == last'.result
    IN (/\ c.op \in {"update", "delete"}
        /\ HasTable(database, c.schema, c.name)
        /\ Matching(database[c.schema][c.name], c.where) = {}) =>
          /\ res.success
          /\ res.rowsAffected = 0
          /\ ~last'.saved
          /\ storage' = storage
          /\ database' = database

\* C10: an update or a delete whose filter holds for no row returns
\* success with rowsAffected = 0, writes no snapshot, and leaves the table's
\* updatedAt, its rows and the rest of the Database as they were.
C10_NoMatchNoWrite == [][C10_Step]_vars

C10_Witness ==
    /\ last.call.op \in {"update", "delete"}
    /\ last.result.success
    /\ last.result.rowsAffected = 0
    /\ ~last.saved
    /\ HasTable(database, last.call.schema, last.call.name)
    /\ LET table == database[last.call.schema][last.call.name]
       IN /\ Len(table.rows) > 0
          /\ table.updatedAt.n < now

\* the table the latest call names
LastTable == database[last.call.schema][last.call.name]

\* the value of a row as a number, null and an absent value counting as 0
NumberOf(row, key) ==
    IF key \in DOMAIN row /\ row[key].t = "number" THEN row[key].n ELSE 0

\* whether the data of an insert gives a value for the column
Given(data, col) == col.name \in DOMAIN data /\ data[col.name] # Undefined

\* one more than the largest value of the column in the rows, 1 for no rows
NextNumber(rows, key) ==
    IF Len(rows) = 0 THEN 1
    ELSE LET values == {NumberOf(rows[i], key) : i \in 1..Len(rows)}
         IN 1 + (CHOOSE m \in values : \A v \in values : v <= m)

\* C2: insert resolves the value of each declared column by precedence:
\* the value given in data, else the column's default (a fresh UUID for the
\* UUID sentinel, the current time for the timestamp sentinel, otherwise the
\* literal default, for every literal default including 0, false and the
\* empty string), else for an auto-increment column one more than the
\* maximum existing value, else null.
C2_InsertPrecedence ==
    (last.call.op = "insert" /\ last.result.success) =>
        LET c == last.call
            row == last.result.data[1]
            before == SubSeq(LastTable.rows, 1, Len(LastTable.rows) - 1)
        IN \A i \in 1..Len(LastTable.columns) :
              LET col == LastTable.columns[i]
                  value == row[col.name]
              IN IF Given(c.data, col)
                 THEN value = c.data[col.name]
                 ELSE IF col.default # Undefined
                 THEN IF col.default = GEN_UUID
                      THEN /\ value.s = "uuid"
                           /\ value.n >= c.uuid
                           /\ value.n < uuidCount
                      ELSE IF col.default = NOW_FN
                      THEN value = ToISOString(c.time)
                      ELSE value = col.default
                 ELSE IF col.autoIncrement = Bool(TRUE)
                 THEN value = Num(NextNumber(before, col.name))
                 ELSE value = Null

\* C4: for an auto-increment column without a default, an insert that
\* gives no value for the column yields 1 when the table has no rows and
\* otherwise one more than the maximum value of the column over the rows
\* in the table (null counting as 0, as Math.max counts it).
C4_AutoIncrement ==
    (last.call.op = "insert" /\ last.result.success) =>
        LET row == last.result.data[1]
            before == SubSeq(LastTable.rows, 1, Len(LastTable.rows) - 1)
        IN \A i \in 1..Len(LastTable.columns) :
              LET col == LastTable.columns[i]
              IN (/\ col.autoIncrement = Bool(TRUE)
                  /\ col.default = Undefined
                  /\ ~Given(last.call.data, col)) =>
                    /\ Len(before) = 0 => row[col.name] = Num(1)
                    /\ row[col.name] = Num(NextNumber(before, col.name))

C4_Witness ==
    /\ last.call.op = "insert"
    /\ last.result.success
    /\ last.call.name = "items"
    /\ ~Given(last.call.data, IdColumn)
    /\ Len(LastTable.rows) = 3
    /\ LastTable.rows[1]["id"] = Num(-2)
    /\ LastTable.rows[2]["id"] = Num(-1)
    /\ LastTable.rows[3]["id"] = Num(0)

\* the number of times a row occurs in a sequence of rows
Count(rows, row) == Cardinality({i \in 1..Len(rows) : rows[i] = row})

\* two sequences hold the same rows, each as often
SameRows(a, b) ==
    /\ Len(a) = Len(b)
    /\ \A i \in 1..Len(a) : Count(a, a[i]) = Count(b, a[i])

\* the rows of a table the filter holds for, in storage order; an absent
\* filter holds for every row
Filtered(table, where) ==
    LET Keep(row) == where = Undefined \/ Holds(row, where)
    IN SelectSeq(table.rows, Keep)

Unpaged(options) == options.limit = Undefined /\ options.offset = Undefined

\* C5: select returns exactly the rows for which every key of the WHERE
\* mapping equals the row's value, in storage order when no ORDER BY is
\* given, the full row set for an empty or absent WHERE, and rowsAffected is
\* the number of rows returned.
C5_SelectWhere ==
    (last.call.op = "select" /\ last.result.success) =>
        LET o == last.call.options
            data == last.result.data
        IN /\ last.result.rowsAffected = Len(data)
           /\ Unpaged(o) => SameRows(data, Filtered(LastTable, o.where))
           /\ (Unpaged(o) /\ o.orderBy = Undefined) =>
                 data = Filtered(LastTable, o.where)
           /\ (Unpaged(o) /\ o.orderBy = Undefined
                 /\ (o.where = Undefined \/ DOMAIN o.where = {})) =>
                 data = LastTable.rows

C5_Witness ==
    /\ last.call.op = "select"
    /\ last.result.success
    /\ last.call.options.orderBy = Undefined
    /\ Unpaged(last.call.options)
    /\ last.call.options.where # Undefined
    /\ Cardinality(DOMAIN last.call.options.where) = 2
    /\ Len(LastTable.rows) = 3
    /\ Len(last.result.data) = 1

\* row a comes strictly before row b in the ordering
Before(a, b, orderBy) ==
    \E k \in 1..Len(orderBy) :
        /\ \A m \in 1..(k - 1) :
              NumberOf(a, orderBy[m].column) = NumberOf(b, orderBy[m].column)
        /\ IF orderBy[k].direction = "ASC"
           THEN NumberOf(a, orderBy[k].column) < NumberOf(b, orderBy[k].column)
           ELSE NumberOf(a, orderBy[k].column) > NumberOf(b, orderBy[k].column)

\* what C6 says of one step
C6_Step ==
    LET c == last'.call
        res == last'.result
    IN (c.op = "select" /\ res.success) =>
          /\ database' = database
          /\ storage' = storage
          /\ (c.options.orderBy # Undefined /\ Unpaged(c.options)) =>
                /\ SameRows(res.data,
                            Filtered(database[c.schema][c.name], c.options.where))
                /\ \A i, j \in 1..Len(res.data) :
                      i < j => ~Before(res.data[j], res.data[i], c.options.orderBy)

\* C6: select with ORDER BY returns a permutation of the filtered rows
\* sorted lexicographically by the ordering keys, ascending for ASC and
\* descending for DESC; it works on a copy, so the stored rows and the
\* Database are unchanged by it.
C6_SelectOrderBy == [][C6_Step]_vars

C6_Witness ==
    /\ last.call.op = "select"
    /\ last.result.success
    /\ last.call.options.orderBy # Undefined
    /\ last.call.options.orderBy = <<Asc("x")>>
    /\ Len(LastTable.rows) = 3
    /\ LastTable.rows[1]["x"] = Num(3)
    /\ LastTable.rows[2]["x"] = Num(1)
    /\ LastTable.rows[3]["x"] = Num(2)
    /\ Len(last.result.data) = 3
    /\ last.result.data[1]["x"] = Num(1)
    /\ last.result.data[2]["x"] = Num(2)
    /\ last.result.data[3]["x"] = Num(3)

\* the smaller of two numbers
Min(a, b) == IF a < b THEN a ELSE b

\* C7: for every non-negative offset o and limit n, select returns exactly
\* the rows at positions o .. o+n-1 of the filtered and ordered rows.
C7_OffsetLimit ==
    (/\ last.call.op = "select"
     /\ last.result.success
     /\ last.call.options.offset # Undefined
     /\ last.call.options.limit # Undefined) =>
        LET c == last.call
            o == c.options.offset.n
            n == c.options.limit.n
            all == select(database, c.schema, c.name,
                          Options(c.options.where, c.options.orderBy,
                                  Undefined, Undefined)).result.data
        IN last.result.data = SubSeq(all, o + 1, Min(o + n, Len(all)))

\* the tables of a Database, as pairs of a schema name and a table name
Tables(db) == {<<s, n>> \in (DOMAIN db) \X TableNames : n \in DOMAIN db[s]}

\* what C11 says of one step
C11_Step ==
    LET c == last'.call
    IN c.op = "createTable" =>
          IF HasTable(database, c.schema, c.name)
          THEN /\ last'.result = FALSE
               /\ database' = database
               /\ storage' = storage
          ELSE /\ last'.result = TRUE
               /\ c.schema \in DOMAIN database'
               /\ DOMAIN database' = DOMAIN database \cup {c.schema}
               /\ Tables(database') = Tables(database) \cup {<<c.schema, c.name>>}
               /\ database'[c.schema][c.name] = c.table
               /\ \A t \in Tables(database) :
                     database'[t[1]][t[2]] = database[t[1]][t[2]]

\* C11: createTable returns false and changes nothing when the schema
\* already holds a table of that name; otherwise it stores the table under
\* that name, returns true, creates the schema when the schema name is new,
\* and leaves all other tables unchanged.
C11_CreateTable == [][C11_Step]_vars

C11_Witness ==
    /\ last.call.op = "createTable"
    /\ last.result = TRUE
    /\ last.call.schema = "app"
    /\ Tables(database) = {<<"public", "users">>, <<"app", "items">>}
    /\ Len(database["public"]["users"].rows) > 0

\* what C12 says of one step
C12_Step ==
    LET c == last'.call
    IN /\ (c.op = "dropTable" /\ HasTable(database, c.schema, c.name)) =>
             /\ last'.result = TRUE
             /\ ~HasTable(database', c.schema, c.name)
             /\ Tables(database') = Tables(database) \ {<<c.schema, c.name>>}
             /\ \A t \in Tables(database') :
                   database'[t[1]][t[2]] = database[t[1]][t[2]]
       /\ (c.op = "createTable" /\ ~HasTable(database, c.schema, c.name)) =>
             /\ last'.result = TRUE
             /\ database'[c.schema][c.name].rows = c.table.rows

\* C12: dropTable on an existing table removes that table with all its
\* rows, returns true and leaves every other table unchanged; afterwards the
\* table is absent, and a createTable of a name that is absent succeeds with
\* the new table's own rows.
C12_DropTable == [][C12_Step]_vars

\* the users table was dropped while it held the one row inserted before
C12_Witness ==
    /\ last.call.op = "dropTable"
    /\ last.result = TRUE
    /\ last.call.name = "users"
    /\ uuidCount = 2
    /\ now = 1
    /\ TotalRows(database) = 0

\* what C13 says of one step
C13_Step ==
    LET c == last'.call
    IN (c.op = "addColumn" /\ last'.result = TRUE) =>
          LET pre == database[c.schema][c.name]
              post == database'[c.schema][c.name]
              value == IF c.column.default = Undefined
                       THEN Null
                       ELSE c.column.default
          IN /\ post.columns = Append(pre.columns, c.column)
             /\ Len(post.rows) = Len(pre.rows)
             /\ \A i \in 1..Len(pre.rows) :
                   /\ DOMAIN post.rows[i] = DOMAIN pre.rows[i] \cup {c.column.name}
                   /\ post.rows[i][c.column.name] = value
                   /\ \A k \in DOMAIN pre.rows[i] \ {c.column.name} :
                         post.rows[i][k] = pre.rows[i][k]

\* C13: a successful addColumn appends the column at the end of the columns
\* and sets, in every row the table had, the new column's key to the
\* column's default value, or to null when the column has no default, for
\* every default value, 0, false and the empty string included.
C13_AddColumn == [][C13_Step]_vars

\* what C14 says of one step
C14_Step ==
    LET c == last'.call
    IN (c.op = "removeColumn" /\ last'.result = TRUE) =>
          LET pre == database[c.schema][c.name]
              post == database'[c.schema][c.name]
              Remains(column) == column.name # c.columnName
          IN /\ post.columns = SelectSeq(pre.columns, Remains)
             /\ Len(post.columns) = Len(pre.columns) - 1
             /\ Len(post.rows) = Len(pre.rows)
             /\ \A i \in 1..Len(pre.rows) :
                   /\ DOMAIN post.rows[i] = DOMAIN pre.rows[i] \ {c.columnName}
                   /\ \A k \in DOMAIN post.rows[i] :
                         post.rows[i][k] = pre.rows[i][k]

\* C14: a successful removeColumn removes the column definition from the
\* columns, keeping the order of the remaining columns, and removes that key
\* from every row, leaving all other keys of every row unchanged.
C14_RemoveColumn == [][C14_Step]_vars

C14_Witness ==
    /\ last.call.op = "removeColumn"
    /\ last.result = TRUE
    /\ last.call.columnName = "qty"
    /\ LET table == database[last.call.schema][last.call.name]
       IN /\ Len(table.columns) = 2
          /\ table.columns[2].name = "x"
          /\ Len(table.rows) = 2
          /\ \A i \in 1..2 : DOMAIN table.rows[i] = {"id", "x"}

\* what C15 says of one step
C15_Step ==
    LET c == last'.call
    IN (/\ c.op \in {"insert", "select", "update", "delete"}
        /\ ~HasTable(database, c.schema, c.name)) =>
          /\ last'.result.success = FALSE
          /\ last'.result.error =
                "Table " \o c.schema \o "." \o c.name \o " not found"
          /\ database' = database
          /\ storage' = storage

\* C15: insert, select, update and delete on a schema or a table that does
\* not exist return success = false with the error
\* "Table <schema>.<table> not found", and leave the Database and the
\* persisted snapshot unchanged.
C15_TableNotFound == [][C15_Step]_vars

C15_Witness ==
    /\ last.call.op = "delete"
    /\ last.call.name = "users"
    /\ last.result.success = FALSE
    /\ last.result.error = "Table public.users not found"
    /\ "users" \notin DOMAIN database["public"]
    /\ TotalRows(database) > 0

\* the failure case of a call that returns a boolean, in the Database db
Fails(db, c) ==
    CASE c.op = "createTable" -> HasTable(db, c.schema, c.name)
      [] c.op = "dropTable" -> ~HasTable(db, c.schema, c.name)
      [] c.op = "addColumn" ->
            \/ ~HasTable(db, c.schema, c.name)
            \/ c.column.name \in ColumnNames(db[c.schema][c.name])
      [] c.op = "removeColumn" ->
            \/ ~HasTable(db, c.schema, c.name)
            \/ c.columnName \notin ColumnNames(db[c.schema][c.name])

\* what C16 says of one step
C16_Step ==
    LET c == last'.call
    IN c.op \in {"createTable", "dropTable", "addColumn", "removeColumn"} =>
          /\ (last'.result = FALSE) <=> Fails(database, c)
          /\ (last'.result = FALSE) =>
                /\ database' = database
                /\ storage' = storage

\* C16: createTable, dropTable, addColumn and removeColumn return false
\* exactly in their failure cases (the table exists; the table is absent;
\* the table is absent or has a column of that name; the table or the column
\* is absent), and when one of them returns false the Database, every
\* table's updatedAt and the persisted snapshot are unchanged.
C16_BooleanFailures == [][C16_Step]_vars

C16_Witness ==
    /\ last.call.op = "addColumn"
    /\ last.result = FALSE
    /\ HasTable(database, last.call.schema, last.call.name)
    /\ LET table == database[last.call.schema][last.call.name]
       IN /\ last.call.column.name \in ColumnNames(table)
          /\ Len(table.rows) > 0
          /\ ~last.saved

\* the schema a CREATE TABLE statement names: public for an unqualified name
NamedSchema(d) == IF d.schema = "" THEN "public" ELSE d.schema

\* what C17 says of one step
C17_Step ==
    \A d \in CreateStatements :
        (/\ last'.call.op = "executeSQL"
         /\ last'.call.sql = CreateText(d)
         /\ ~HasTable(database, NamedSchema(d), d.name)) =>
            /\ HasTable(database', NamedSchema(d), d.name)
            /\ LET table == database'[NamedSchema(d)][d.name]
               IN /\ table.rows = << >>
                  /\ Len(table.columns) = Len(d.defs)
                  /\ \A i \in 1..Len(d.defs) :
                        LET column == table.columns[i]
                        IN /\ column.name # ""
                           /\ SubSeq(d.defs[i], 1, Len(column.name)) = column.name
                           /\ column.nullable = ~includes(d.defs[i], "NOT NULL")
                           /\ column.primary =
                                 Bool(includes(d.defs[i], "PRIMARY KEY"))
                           /\ column.unique = Bool(includes(d.defs[i], "UNIQUE"))
            /\ last'.result.success
            /\ last'.result.rowsAffected = 0

C18_Step ==
    \A d \in CreateStatements :
        (/\ last'.call.op = "executeSQL"
         /\ last'.call.sql = CreateText(d)
         /\ HasTable(database, NamedSchema(d), d.name)) =>
            /\ last'.result.success
            /\ last'.result.rowsAffected = 0
            /\ database' = database
            /\ storage' = storage

\* C18: executeSQL of a CREATE TABLE statement that names a table that
\* exists returns success with rowsAffected = 0 and leaves that table (its
\* columns, rows and timestamps) and the persisted snapshot unchanged.
C18_SqlCreateExisting == [][C18_Step]_vars

\* the items table, made by an earlier statement and holding a row, after a
\* second CREATE TABLE items
C18_Witness ==
    /\ last.call.op = "executeSQL"
    /\ \E d \in CreateStatements :
          /\ d.name = "items"
          /\ d.schema = ""
          /\ last.call.sql = CreateText(d)
    /\ last.result.success
    /\ ~last.saved
    /\ HasTable(database, "public", "items")
    /\ LET table == database["public"]["items"]
       IN /\ table.id.n < last.call.uuid
          /\ Len(table.rows) > 0
          /\ Len(table.columns) = 3

\* what C19 says of one step
C19_Step ==
    \A d \in SelectStatements :
        (last'.call.op = "executeSQL" /\ last'.call.sql = d.text) =>
            /\ last'.result =
                  select(database, d.schema, d.name,
                         Options(Undefined, Undefined, Undefined, Undefined)).result
            /\ IF HasTable(database, d.schema, d.name)
               THEN /\ last'.result.success
                    /\ last'.result.data = database[d.schema][d.name].rows
                    /\ last'.result.rowsAffected =
                          Len(database[d.schema][d.name].rows)
               ELSE /\ last'.result.success = FALSE
                    /\ last'.result.error =
                          "Table " \o d.schema \o "." \o d.name \o " not found"
            /\ database' = database
            /\ storage' = storage

\* C19: executeSQL of "SELECT ... FROM [schema.]name" returns what
\* select(schema, name) returns with no filter, order or limit, with schema
\* public when the name is unqualified: success with all rows of the table
\* in storage order, or the table-not-found failure when the table is
\* absent; it never changes the Database.
C19_SqlSelect == [][C19_Step]_vars

C19_Witness ==
    /\ last.call.op = "executeSQL"
    /\ last.call.sql = "  select id, qty from items"
    /\ last.result.success
    /\ last.result.rowsAffected = 2
    /\ HasTable(database, "public", "items")
    /\ last.result.data = database["public"]["items"].rows
    /\ last.result.data[1].qty = Num(1)
    /\ last.result.data[2].qty = Num(2)

\* the text, trimmed and in upper case, starts with neither keyword
Unrecognized(sql) ==
    LET text == toUpperCase(trim(sql))
    IN /\ ~(Len(text) >= 12 /\ SubSeq(text, 1, 12) = "CREATE TABLE")
       /\ ~(Len(text) >= 6 /\ SubSeq(text, 1, 6) = "SELECT")

\* what C20 says of one step
C20_Step ==
    (last'.call.op = "executeSQL" /\ Unrecognized(last'.call.sql)) =>
        /\ last'.result.success = FALSE
        /\ last'.result.error =
              "SQL parsing not fully implemented for this query"
        /\ database' = database
        /\ storage' = storage

\* C20: executeSQL of a text that, trimmed and in upper case, starts with
\* neither CREATE TABLE nor SELECT (a DROP TABLE, INSERT, UPDATE or DELETE
\* statement, say) returns success = false with the error
\* "SQL parsing not fully implemented for this query" and leaves the
\* Database and the persisted snapshot unchanged.
C20_SqlUnsupported == [][C20_Step]_vars

C20_Witness ==
    /\ last.call.op = "executeSQL"
    /\ last.call.sql = "DROP TABLE users"
    /\ last.result.success = FALSE
    /\ last.result.error = "SQL parsing not fully implemented for this query"
    /\ HasTable(database, "public", "users")
    /\ Len(database["public"]["users"].rows) > 0

(***************************************************************************)
(* Construction and persistence.                                           *)
(***************************************************************************)
\* C22: a new engine that finds no snapshot holds the single schema public
\* with only the default table users (columns id, email, name, avatar_url,
\* created_at, no rows) and persists that; a new engine that finds a
\* snapshot holds the snapshot, with the default table added only when
\* public.users is missing, and keeps an existing users table and its rows.
C22_Step ==
    last'.call.op = "new" =>
        IF storage = Null
        THEN /\ DOMAIN database' = {"public"}
             /\ DOMAIN database'["public"] = {"users"}
             /\ database'["public"]["users"].rows = << >>
             /\ LET columns == database'["public"]["users"].columns
                IN [i \in 1..Len(columns) |-> columns[i].name]
                      = <<"id", "email", "name", "avatar_url", "created_at">>
             /\ storage' = saveDatabase(database')
        ELSE LET loaded == JSONparse(storage)
             IN IF "users" \in DOMAIN loaded["public"]
                THEN /\ database' = loaded
                     /\ storage' = storage
                ELSE /\ DOMAIN database' = DOMAIN loaded
                     /\ \A s \in DOMAIN loaded :
                           /\ DOMAIN database'[s]
                                 = DOMAIN loaded[s]
                                     \cup (IF s = "public" THEN {"users"} ELSE {})
                           /\ \A n \in DOMAIN loaded[s] :
                                 database'[s][n] = loaded[s][n]
                     /\ database'["public"]["users"].rows = << >>
                     /\ storage' = saveDatabase(database')

C22_Initialization == [][C22_Step]_vars

\* a new engine found a snapshot whose table users has a row, and holds it
C22_Witness ==
    /\ last.call.op = "new"
    /\ last.call.data # Null
    /\ "users" \in DOMAIN last.call.data.json["public"]
    /\ Len(last.call.data.json["public"]["users"].rows) > 0
    /\ database["public"]["users"] = last.call.data.json["public"]["users"]

\* C23: a new engine constructed from the persisted snapshot holds a
\* Database equal, in every schema, table, column, row and timestamp, to the
\* Database of the engine that wrote the snapshot.
C23_RoundTrip ==
    [][(last'.call.op = "new" /\ storage # Null) => database' = database]_vars

(***************************************************************************)
(* The query history.                                                      *)
(***************************************************************************)
\* the entries localStorage holds for the history
Entries(item) == IF item = Null THEN << >> ELSE item.json

\* C21: the history never holds more than 50 entries; saveQueryToHistory
\* puts its text at the front, keeps the entries before it in their order
\* and drops exactly the last one when the list would exceed 50;
\* getQueryHistory returns the persisted list, the empty list when nothing
\* was saved.
C21_Step ==
    /\ Len(Entries(queryHistory')) <= 50
    /\ last'.call.op = "saveQueryToHistory" =>
          LET before == Entries(queryHistory)
              after == Entries(queryHistory')
              kept == IF Len(before) >= 50 THEN 49 ELSE Len(before)
          IN /\ Len(after) = kept + 1
             /\ after[1] = last'.call.sql
             /\ \A i \in 1..kept : after[i + 1] = before[i]
    /\ last'.call.op = "getQueryHistory" =>
          /\ last'.result = Entries(queryHistory)
          /\ queryHistory = Null => last'.result = << >>
          /\ queryHistory' = queryHistory

C21_QueryHistory == [][C21_Step]_vars

\* a text was saved to a history of 50 entries: the oldest one is gone
C21_Witness ==
    /\ last.call.op = "saveQueryToHistory"
    /\ Len(Entries(queryHistory)) = 50
    /\ Entries(queryHistory)[50] = "SELECT 'older'"
    /\ Entries(queryHistory)[2] \in QueryTexts

(***************************************************************************)
(* Statements with a keyword that their expression does not match.         *)
(***************************************************************************)
\* what executeSQL does, in one step, with such a statement
C24_Step ==
    (last'.call.op = "executeSQL" /\ last'.call.sql \in MalformedStatements) =>
        /\ last'.result =
              [success |-> FALSE,
               error |-> "SQL parsing not fully implemented for this query"]
        /\ database' = database
        /\ storage' = storage

\* C24, as amended: executeSQL of a text that starts with CREATE TABLE or
\* SELECT and that the expression of its kind does not match returns the
\* failure "SQL parsing not fully implemented for this query", as for a
\* text of another kind, and leaves the Database and the snapshot unchanged.
C24_SqlMalformed == [][C24_Step]_vars

C24_Witness ==
    /\ last.call.op = "executeSQL"
    /\ last.call.sql = "CREATE TABLE items"
    /\ last.result =
          [success |-> FALSE,
           error |-> "SQL parsing not fully implemented for this query"]
    /\ ~last.saved

\* C24, as stated: executeSQL of such a text falls through without
\* returning a result value, so the call yields undefined.
C24_FallsThrough ==
    [][(last'.call.op = "executeSQL" /\ last'.call.sql \in MalformedStatements)
          => last'.result = Undefined]_vars

(***************************************************************************)
(* Calls of executeSQL that overlap.                                       *)
(***************************************************************************)
\* the statement of the model with the text sql
Statement(sql) == CHOOSE d \in AsyncStatements : d.text = sql

\* what a call of executeSQL does when its delay has elapsed, in one step:
\* a SELECT returns the rows the table has then; a CREATE TABLE returns
\* success, and makes its table only when none of that name exists then
C25_Step ==
    (last'.call.op = "executeSQL" /\ pending # << >>
        /\ last'.call.sql = Head(pending).sql) =>
        LET d == Statement(last'.call.sql)
        IN /\ pending' = Tail(pending)
           /\ IF d.columns = << >>
              THEN /\ database' = database
                   /\ IF HasTable(database, "public", d.name)
                      THEN /\ last'.result.success
                           /\ last'.result.data = database["public"][d.name].rows
                      ELSE ~last'.result.success
              ELSE /\ last'.result.success
                   /\ HasTable(database', "public", d.name)
                   /\ DOMAIN database' = DOMAIN database
                   /\ DOMAIN database'["public"]
                         = DOMAIN database["public"] \cup {d.name}
                   /\ \A n \in DOMAIN database["public"] \ {d.name} :
                         database'["public"][n] = database["public"][n]
                   /\ IF HasTable(database, "public", d.name)
                      THEN database' = database
                      ELSE LET table == database'["public"][d.name]
                           IN /\ [i \in 1..Len(table.columns) |->
                                    table.columns[i].name] = d.columns
                              /\ table.rows = << >>

\* C25: executeSQL reads and changes the Database only when its delay has
\* elapsed, in one step, on the Database of that moment: a pending SELECT
\* returns a row inserted during its delay, and of two overlapping
\* CREATE TABLE calls for one new name both return success while the table
\* is the one of the call whose delay elapsed first.
C25_AfterDelay == [][C25_Step]_vars

\* the second of two overlapping CREATE TABLE calls for items returned
\* success; the table is the one the first made, with a row inserted since
C25_Witness ==
    /\ last.call.op = "executeSQL"
    /\ last.call.sql = "CREATE TABLE items (qty INTEGER, note TEXT)"
    /\ last.result.success
    /\ HasTable(database, "public", "items")
    /\ ColumnNames(database["public"]["items"]) = {"id"}
    /\ last.call.startTime < database["public"]["items"].createdAt.n
    /\ Len(database["public"]["items"].rows) = 1

(***************************************************************************)
(* The shape of rows and the values of an auto-increment column.           *)
(***************************************************************************)
\* every row of every table has exactly the declared column names as keys
RowShape(db) ==
    \A s \in DOMAIN db : \A n \in DOMAIN db[s] :
        \A i \in 1..Len(db[s][n].rows) :
            DOMAIN db[s][n].rows[i] = ColumnNames(db[s][n])

\* the call of a step is one C26 speaks of: an update gives only keys that
\* are declared columns of its table
DeclaredKeys ==
    last'.call.op = "update" =>
        (HasTable(database, last'.call.schema, last'.call.name) =>
            DOMAIN last'.call.data
                \subseteq ColumnNames(database[last'.call.schema][last'.call.name]))

\* C26: tables are created with no rows, and every createTable, dropTable,
\* insert, addColumn, removeColumn and delete, and every update whose data
\* keys are declared columns, keeps the row shape: every row's key set
\* equals the set of the table's declared column names.
C26_RowShape == [][(RowShape(database) /\ DeclaredKeys) => RowShape(database')]_vars

\* an update of the added column x wrote a row of a table with three
\* declared columns, and the rows have exactly those keys
C26_Witness ==
    /\ last.call.op = "update"
    /\ last.result.success
    /\ last.result.rowsAffected > 0
    /\ DOMAIN last.call.data = {"x"}
    /\ HasTable(database, "public", "items")
    /\ ColumnNames(database["public"]["items"]) = {"id", "qty", "x"}
    /\ RowShape(database)

\* the auto-increment columns without a default of a table
Generated(table) ==
    {table.columns[i].name : i \in
        {i \in 1..Len(table.columns) :
            /\ table.columns[i].autoIncrement = Bool(TRUE)
            /\ table.columns[i].default = Undefined}}

\* C27: in an auto-increment column without a default whose values only
\* insert generates (no call gives the column a value, no update changes
\* it), no two rows that are in the table hold the same value, whatever
\* inserts and deletes were made.
C27_UniqueGenerated ==
    \A s \in DOMAIN database : \A n \in DOMAIN database[s] :
        LET table == database[s][n]
        IN \A key \in Generated(table) :
              \A i, j \in 1..Len(table.rows) :
                  i # j => table.rows[i][key] # table.rows[j][key]

\* after a delete of the row numbered 1 the next insert was numbered 3:
\* the rows in the table are numbered 2 and 3
C27_Witness ==
    /\ last.call.op = "insert"
    /\ HasTable(database, "public", "items")
    /\ "id" \in Generated(database["public"]["items"])
    /\ Len(database["public"]["items"].rows) = 2
    /\ database["public"]["items"].rows[1]["id"] = Num(2)
    /\ database["public"]["items"].rows[2]["id"] = Num(3)

(***************************************************************************)
(* The lockout of AuthService.                                             *)
(***************************************************************************)
\* the logins for an email that failed within the 15 minutes before time
FailedWithin(made, email, time) ==
    {i \in DOMAIN made :
        /\ made[i].email = email
        /\ ~made[i].success
        /\ time - made[i].timestamp < 15 * 60 * 1000}

\* C28: a login for an email of which five logins have failed within the
\* last 15 minutes returns the account-locked error, creates no session
\* and records no attempt, whatever logins for other emails were made in
\* between.
C28_Lockout ==
    [][(last'.call.op = "login"
          /\ Cardinality(FailedWithin(auth.made, last'.call.email, now)) >= 5)
       => /\ last'.result.success = FALSE
          /\ last'.result.error =
                "Account locked due to too many failed attempts. Try again in 15 minutes."
          /\ auth'.session = auth.session
          /\ auth'.attempts = auth.attempts]_vars

(***************************************************************************)
(* The files and buckets of StorageService.                                *)
(***************************************************************************)
\* C29: every stored file's bucketId is the id of an existing bucket, and
\* each bucket's fileCount is the number of stored files with its id,
\* after any calls of createBucket, uploadFile, copyFile, moveFile,
\* deleteFile and deleteBucket, a deleteBucket during an uploadFile to
\* that bucket included.
C29_Integrity ==
    /\ \A i \in DOMAIN store.files :
          \E b \in DOMAIN store.buckets :
              store.buckets[b].id = store.files[i].bucketId
    /\ \A b \in DOMAIN store.buckets :
          store.buckets[b].fileCount
              = Cardinality({i \in DOMAIN store.files :
                                store.files[i].bucketId = store.buckets[b].id})

(***************************************************************************)
(* console.log and the logs of executeFunction.                            *)
(***************************************************************************)
\* C30: once every started call of executeFunction has completed, calls
\* that overlapped included, console.log is the original function again,
\* and the logs of each execution hold only lines that were logged while
\* that execution ran.
C30_Restored ==
    (\A e \in DOMAIN console.executions : console.executions[e].done)
        => /\ console.log = 0
           /\ \A e \in DOMAIN console.executions :
                 \A i \in DOMAIN console.executions[e].logs :
                     e \in console.lines[console.executions[e].logs[i]]
====
